---- MODULE Spec2Model ----
(***************************************************************************)
(* The file-based mailbox protocol of the agent coordinator:               *)
(*   src/src/inbox.ts         writeInbox, readInbox, readUnread,           *)
(*                            parseMessage                                 *)
(*   src/src/inbox-poller.ts  InboxPoller.poll                             *)
(*   controller receive()     (its source is not in src/; modelled from    *)
(*                            spec.md section 4.5)                         *)
(*                                                                         *)
(* Every `await` of the source is a step boundary: the code between two    *)
(* awaits is one atomic action.  A mailbox file is shared by independent   *)
(* callers (Procs): agents writing, and the consumers on the coordinator   *)
(* side (the timer-driven poller, a blocking receive).                     *)
(***************************************************************************)
EXTENDS Integers, Sequences, FiniteSets, TLC

\* ------------------------------------------------------------------ bounds
\* Number of writeInbox calls made in one behaviour.
MaxMsgs == 2
\* Number of scans a receive() makes before its deadline has certainly passed.
MaxScans == 2
\* Number of handlers registered with the poller.
MaxHandlers == 2
\* Number of interval handles the runtime can have handed out at one time.
MaxTimers == 2

\* Number of tasks created in one behaviour.
MaxTasks == 2
\* Number of TaskManager calls made in one behaviour, init() and waitFor()
\* not counted.
MaxTaskCalls == 4
\* Number of fetches a waitFor() makes before its deadline has certainly
\* passed.
MaxFetches == 2
\* Length of the blocks / blockedBy lists passed to create and update.
MaxIds == 1
\* Length of the id list passed to addBlocks.
MaxBlocked == 2
\* The clock of an events() generator runs up to this time.
MaxNow == 3
\* Calls of controller.receive made by one events() generator.
MaxReceives == 2

\* ------------------------------------------------------- program constants
\* LOCK_OPTIONS.retries.retries: lock() is retried this many times.
LockRetries == 5

Mailboxes == {"controller", "worker1", "worker2"}

\* The mailboxes the mailbox-store scenarios write to and read.
StoreMailboxes == {"controller", "worker1"}
\* Concurrent callers: independent agent processes and the coordinator's
\* timers and pending calls.
Procs == {"a1", "a2", "c1", "c2"}

\* The coordinator's own inbox, read by poll() and receive().
ControllerInbox == "controller"
\* The senders receive() may filter on.
Agents == {"worker1"}

Undefined == "undefined"
NoProc == "none"

\* -------------------------------------------------------------- payloads
IdleText == "{\"type\":\"idle_notification\",\"from\":\"worker1\",\"idleReason\":\"available\"}"
ShutdownText == "{\"type\":\"shutdown_approved\",\"requestId\":\"sd-1\",\"from\":\"worker1\"}"
PlanText == "{\"type\":\"plan_approval_request\",\"requestId\":\"plan-789\",\"from\":\"coder\"}"
PermText == "{\"type\":\"permission_request\",\"requestId\":\"perm-456\",\"from\":\"worker1\"}"
ResponseText == "{\"type\":\"permission_response\",\"requestId\":\"perm-456\",\"from\":\"worker1\"}"
ContentText == "Actual content"
OtherText == "From worker2"
EmptyText == ""
InvalidText == "not { valid json"
NumberText == "42"
ZeroText == "0"
StringText == "\"hello\""
TrueText == "true"
FalseText == "false"
NullText == "null"
ArrayText == "[1, 2, 3]"
EmptyArrayText == "[]"
UntypedText == "{\"foo\": \"bar\"}"
EmptyObjectText == "{}"
UnknownText == "{\"type\":\"unknown_type\",\"data\":\"something\"}"
NullTypeText == "{\"type\":null}"
\* The JSON value null.
Null == "null"

\* What callers pass to writeInbox (Omit<InboxMessage, "read">), the
\* timestamp aside: what the agents send to the coordinator.
Messages ==
  { [from |-> "worker1", text |-> ContentText, summary |-> "greeting", color |-> "blue"],
    [from |-> "worker1", text |-> IdleText, summary |-> Undefined, color |-> Undefined],
    [from |-> "worker1", text |-> ShutdownText, summary |-> Undefined, color |-> Undefined],
    [from |-> "worker2", text |-> OtherText, summary |-> Undefined, color |-> Undefined] }

\* The messages the mailbox-store scenarios write: one with and one without
\* the optional fields.
StoreMessages ==
  { m \in Messages : m.text \in {ContentText, OtherText} }

\* What the poller's inbox receives: every kind of message the coordinator
\* routes to an event of its own, and two it routes to "message".
PollMessages ==
  { [from |-> "worker1", text |-> ContentText, summary |-> Undefined, color |-> Undefined],
    [from |-> "worker1", text |-> IdleText, summary |-> Undefined, color |-> Undefined],
    [from |-> "worker1", text |-> ShutdownText, summary |-> Undefined, color |-> Undefined],
    [from |-> "coder", text |-> PlanText, summary |-> Undefined, color |-> Undefined],
    [from |-> "worker1", text |-> PermText, summary |-> Undefined, color |-> Undefined],
    [from |-> "worker1", text |-> ResponseText, summary |-> Undefined, color |-> Undefined] }

\* The decimal digits, as String() prints them and parseInt() reads them.
Digit == <<"0", "1", "2", "3", "4", "5", "6", "7", "8", "9">>

\* The subjects tasks are created with.
Subjects == {"Test task", "Assigned task"}

\* JSON.stringify of a task_assignment message.
AssignText(taskId, subject) ==
  "{\"type\":\"task_assignment\",\"taskId\":\"" \o taskId
    \o "\",\"subject\":\"" \o subject \o "\",\"assignedBy\":\"controller\"}"

\* The ids a task_assignment text can carry.
AssignIds == {Digit[n + 1] : n \in 1..MaxTasks}

\* JSON.parse on the payloads above: the value, or a SyntaxError.
JSONParse(text) ==
  CASE text = IdleText ->
         [ok |-> TRUE, kind |-> "object",
          val |-> [type |-> "idle_notification", from |-> "worker1",
                   idleReason |-> "available"]]
    [] text = ShutdownText ->
         [ok |-> TRUE, kind |-> "object",
          val |-> [type |-> "shutdown_approved", requestId |-> "sd-1",
                   from |-> "worker1"]]
    [] text = PlanText ->
         [ok |-> TRUE, kind |-> "object",
          val |-> [type |-> "plan_approval_request", requestId |-> "plan-789",
                   from |-> "coder"]]
    [] text = PermText ->
         [ok |-> TRUE, kind |-> "object",
          val |-> [type |-> "permission_request", requestId |-> "perm-456",
                   from |-> "worker1"]]
    [] text = ResponseText ->
         [ok |-> TRUE, kind |-> "object",
          val |-> [type |-> "permission_response", requestId |-> "perm-456",
                   from |-> "worker1"]]
    [] \E i \in AssignIds, sub \in Subjects : text = AssignText(i, sub) ->
         LET a == CHOOSE a \in AssignIds \X Subjects : text = AssignText(a[1], a[2])
         IN [ok |-> TRUE, kind |-> "object",
             val |-> [type |-> "task_assignment", taskId |-> a[1],
                      subject |-> a[2], assignedBy |-> "controller"]]
    [] text = NumberText -> [ok |-> TRUE, kind |-> "number", val |-> 42]
    [] text = ZeroText -> [ok |-> TRUE, kind |-> "number", val |-> 0]
    [] text = StringText -> [ok |-> TRUE, kind |-> "string", val |-> "hello"]
    [] text = TrueText -> [ok |-> TRUE, kind |-> "boolean", val |-> TRUE]
    [] text = FalseText -> [ok |-> TRUE, kind |-> "boolean", val |-> FALSE]
    [] text = NullText -> [ok |-> TRUE, kind |-> "null", val |-> Null]
    [] text = ArrayText -> [ok |-> TRUE, kind |-> "array", val |-> <<1, 2, 3>>]
    [] text = EmptyArrayText -> [ok |-> TRUE, kind |-> "array", val |-> <<>>]
    [] text = UntypedText ->
         [ok |-> TRUE, kind |-> "object", val |-> [foo |-> "bar"]]
    [] text = EmptyObjectText ->
         [ok |-> TRUE, kind |-> "object", val |-> [f \in {} |-> Null]]
    [] text = UnknownText ->
         [ok |-> TRUE, kind |-> "object",
          val |-> [type |-> "unknown_type", data |-> "something"]]
    [] text = NullTypeText ->
         [ok |-> TRUE, kind |-> "object", val |-> [type |-> Null]]
    [] OTHER ->
         [ok |-> FALSE, kind |-> "SyntaxError", val |-> [error |-> "SyntaxError"]]

\* The truthiness of a parsed value, as `parsed && ...` tests it.
truthy(r) ==
  CASE r.kind = "null" -> FALSE
    [] r.kind = "boolean" -> r.val
    [] r.kind = "number" -> r.val # 0
    [] r.kind = "string" -> r.val # ""
    [] OTHER -> TRUE

\* typeof parsed
typeOf(r) ==
  IF r.kind \in {"object", "array", "null"} THEN "object" ELSE r.kind

\* key in parsed, for a key that is no array index and not "length"
hasProperty(key, r) == r.kind = "object" /\ key \in DOMAIN r.val

\* Mutant of parseMessage: the `"type" in parsed` test inverted, so that a
\* typed object falls through to plain text.
parseMessageInverted(msg) ==
  LET r == JSONParse(msg.text)
  IN  IF r.ok /\ truthy(r) /\ typeOf(r) = "object" /\ ~hasProperty("type", r)
        THEN r.val
        ELSE [type |-> "plain_text", text |-> msg.text]

\* Mutant of parseMessage: without the try / catch, what JSON.parse throws
\* is what the caller gets.
parseMessageUncaught(msg) ==
  LET r == JSONParse(msg.text)
  IN  IF ~r.ok THEN r.val
      ELSE IF truthy(r) /\ typeOf(r) = "object" /\ hasProperty("type", r)
        THEN r.val
        ELSE [type |-> "plain_text", text |-> msg.text]

\* try { parsed = JSON.parse(msg.text); if (parsed && typeof parsed ===
\* "object" && "type" in parsed) return parsed } catch {}; return plain text
parseMessage(msg) ==
  LET r == JSONParse(msg.text)
  IN  IF r.ok /\ truthy(r) /\ typeOf(r) = "object" /\ hasProperty("type", r)
        THEN r.val
        ELSE [type |-> "plain_text", text |-> msg.text]

\* ----------------------------------------------------------------- state
VARIABLES
  file,      \* mailbox -> the inbox file: absent, a JSON array, or malformed
  lock,      \* lock path -> the caller holding the lockfile, or NoProc
  op,        \* caller -> the operation it runs (or ran last)
  pc,        \* caller -> its position in that operation
  arg,       \* caller -> the operation's arguments
  messages,  \* caller -> the `messages` array the operation read
  attempts,  \* caller -> failed lock() attempts of the current call
  ret,       \* caller -> the outcome of its current (or last) call
  rcv,       \* caller -> receive()'s loop state
  clock,     \* timestamps handed out so far
  handlers,  \* InboxPoller.handlers, in registration order
  timer,     \* InboxPoller.timer: the interval it started, or NoTimer
  timers,    \* the intervals set and not cleared
  \* history, read only by the properties
  calls,     \* mailbox -> writeInbox calls made on it
  applied,   \* mailbox -> the messages written, in the order of the writes
  returned,  \* timestamp -> readUnread calls that returned the entry
  handled,   \* timestamp -> handler invocations whose batch held the entry
  atLock,    \* caller -> the unread entries stored when it took the lock
  seen,      \* caller -> entries the scans of its receive() returned
  invoked,   \* caller -> the handler invocations of its poll(), in order
  tasks,     \* task id -> the task file of that id, or NoTask
  nextId,    \* TaskManager.nextId
  tcall,     \* task caller -> its call of the TaskManager and its locals
  taskCalls, \* TaskManager calls started so far
  \* history, read only by the properties
  tasksAtCall, \* task caller -> the task files when its call started
  created,     \* the ids create() has returned since the TaskManager was made
  deleted,     \* a delete() has been called on the task directory
  initialised, \* init() has completed since the TaskManager was made
  members,     \* the member records of the team config, in order
  coord,       \* the coordinator's call under way and its locals
  gen          \* an AgentHandle.events() generator, its locals and its clock

vars == <<file, lock, op, pc, arg, messages, attempts, ret, rcv, clock,
          handlers, timer, timers,
          calls, applied, returned, handled, atLock, seen, invoked,
          tasks, nextId, tcall, taskCalls, tasksAtCall,
          created, deleted, initialised, members, coord, gen>>

\* The task directory and the TaskManager working on it.
taskStore == <<tasks, nextId, tcall, taskCalls, tasksAtCall,
               created, deleted, initialised>>

taskHistory == <<created, deleted, initialised>>

\* The team config, the coordinator and the agent handle.
coordination == <<members, coord, gen>>

\* The poller object's own fields.
poller == <<handlers, timer, timers>>

history == <<calls, applied, returned, handled, atLock, seen>>

AbsentFile == [state |-> "absent", msgs |-> <<>>]
EmptyFile == [state |-> "json", msgs |-> <<>>]
MalformedFile == [state |-> "malformed", msgs |-> <<>>]
\* A file of zero bytes: its content "" is not JSON.
BlankFile == [state |-> "blank", msgs |-> <<>>]

NoArg == [mailbox |-> ControllerInbox,
          message |-> [from |-> Undefined, text |-> Undefined, timestamp |-> 0,
                       summary |-> Undefined, color |-> Undefined],
          agent |-> Undefined, all |-> FALSE]
\* private timer: ReturnType<typeof setInterval> | null = null
NoTimer == 0
NoRet == [status |-> "none", error |-> Undefined, value |-> <<>>]
NoRcv == [acc |-> <<>>, fallback |-> <<>>, scans |-> 0]

Ok(value) == [status |-> "ok", error |-> Undefined, value |-> value]
Err(error) == [status |-> "error", error |-> error, value |-> <<>>]

\* String(n), for the one-digit numbers the bounds allow.
String(n) == Digit[n + 1]

\* parseInt(s, 10)
parseInt(s) == CHOOSE n \in 0..(Len(Digit) - 1) : Digit[n + 1] = s

\* Task ids: String(nextId).
TaskIds == {String(n) : n \in 1..MaxTasks}

\* The callers of the TaskManager: the coordinator's calls on the task
\* graph, and a waitFor() it has under way meanwhile.
GraphCallers == {"t1"}
TaskWaiters == {"t2"}
TaskCallers == GraphCallers \cup TaskWaiters

\* No file at taskPath(team, id).
NoTask == [id |-> "", subject |-> "", owner |-> Undefined, status |-> "absent",
           blocks |-> <<>>, blockedBy |-> <<>>]

\* The id lists of at most n ids a caller passes.
IdLists(n) == UNION {[1..k -> TaskIds] : k \in 0..n}

\* The `task` argument of create(): subject, and optionally status, blocks
\* or blockedBy.
CreateFields ==
  {[subject |-> "Test task"],
   [subject |-> "Test task", status |-> "in_progress"]}
    \cup {[subject |-> "Test task", blocks |-> l] : l \in IdLists(MaxIds) \ {<<>>}}
    \cup {[subject |-> "Test task", blockedBy |-> l] : l \in IdLists(MaxIds) \ {<<>>}}

\* The `updates` argument of update(): a partial task.
Updates ==
  {[status |-> "completed"]}
    \cup {[blocks |-> l] : l \in IdLists(MaxIds)}
    \cup {[blockedBy |-> l] : l \in IdLists(MaxIds)}

NoUpdates == [none |-> TRUE]

\* A task caller with no call under way.
NoCall == [op |-> "none", pc |-> "idle", taskId |-> "", blockedTaskIds |-> <<>>,
           updates |-> NoUpdates, task |-> NoTask, toAdd |-> <<>>, k |-> 0,
           files |-> <<>>, read |-> <<>>, targetStatus |-> "", fetches |-> 0,
           ret |-> NoRet]

\* The coordinator's identity, and the lead member of the team config.
CoordinatorName == "controller"

\* The agents that join the team.
Workers == {"worker1", "worker2"}

\* deadline = Infinity
Never == [finite |-> FALSE, at |-> 0]

\* No events() generator.
NoEvents == [pc |-> "none", timeout |-> 0, deadline |-> Never, now |-> 0,
             messages |-> <<>>, yielded |-> <<>>, received |-> <<>>,
             receives |-> 0, last |-> "none", isRunning |-> TRUE,
             ended |-> "no"]

\* The lead member TeamManager.create registers.
Lead == [name |-> CoordinatorName, agentType |-> "controller"]

NoMember == [name |-> Undefined, agentType |-> Undefined]

\* A worker's member record as the coordinator registers it.
Member(name) == [name |-> name, agentType |-> "general-purpose"]

\* The coordinator with no call under way.
NoCoord == [op |-> "none", pc |-> "idle", agent |-> Undefined, subject |-> "",
            member |-> NoMember,
            taskId |-> "", text |-> Undefined, summary |-> Undefined,
            recipients |-> <<>>, config |-> <<>>, ret |-> NoRet,
            inboxes |-> [m \in Mailboxes |-> AbsentFile],
            tasksBefore |-> [i \in TaskIds |-> NoTask],
            membersBefore |-> <<>>]

\* Mutant of inboxPath: the agent's name is not part of the path, so the
\* team has one inbox file.
inboxPathShared(agentName) == ControllerInbox

\* inboxPath(team, agent): one file per agent of the team.
inboxPath(agentName) == agentName

\* lock(path, LOCK_OPTIONS): the lockfile guards the mailbox file itself.
lockTarget(agentName) == inboxPath(agentName)

LockPaths == {lockTarget(m) : m \in Mailboxes}

\* The timestamps the writes can carry.
Stamps == 1..MaxMsgs

\* Nothing has been written yet: no mailbox file exists, or the coordinator's
\* is left over from an earlier run with content that is not JSON.
\* Every variable but the mailbox files, as construction leaves it.
Constructed ==
  /\ lock = [l \in LockPaths |-> NoProc]
  /\ op = [p \in Procs |-> "none"]
  /\ pc = [p \in Procs |-> "idle"]
  /\ arg = [p \in Procs |-> NoArg]
  /\ messages = [p \in Procs |-> <<>>]
  /\ attempts = [p \in Procs |-> 0]
  /\ ret = [p \in Procs |-> NoRet]
  /\ rcv = [p \in Procs |-> NoRcv]
  /\ clock = 0
  /\ calls = [m \in Mailboxes |-> 0]
  /\ applied = [m \in Mailboxes |-> <<>>]
  /\ returned = [t \in Stamps |-> 0]
  /\ handled = [t \in Stamps |-> 0]
  /\ atLock = [p \in Procs |-> <<>>]
  /\ seen = [p \in Procs |-> <<>>]
  /\ invoked = [p \in Procs |-> <<>>]
  /\ handlers = <<>>
  /\ timer = NoTimer
  /\ timers = {}
  /\ tasks = [i \in TaskIds |-> NoTask]
  /\ nextId = 1
  /\ tcall = [c \in TaskCallers |-> NoCall]
  /\ taskCalls = 0
  /\ tasksAtCall = [c \in TaskCallers |-> [i \in TaskIds |-> NoTask]]
  /\ created = {}
  /\ deleted = FALSE
  /\ initialised = FALSE
  /\ members = <<Lead>>
  /\ coord = NoCoord
  /\ gen = NoEvents

Init ==
  /\ file \in {f \in [Mailboxes -> {AbsentFile, MalformedFile}] :
                 \A m \in Mailboxes \ {ControllerInbox} : f[m] = AbsentFile}
  /\ Constructed

\* The team's directory as a crash or a foreign writer may have left it: the
\* coordinator's mailbox absent, malformed or of zero bytes.
InitFiles ==
  /\ file \in {f \in [Mailboxes -> {AbsentFile, MalformedFile, BlankFile}] :
                 \A m \in Mailboxes \ {ControllerInbox} : f[m] = AbsentFile}
  /\ Constructed

\* ------------------------------------------------------------- helpers
Entry(message) ==
  [from |-> message.from, text |-> message.text, timestamp |-> message.timestamp,
   summary |-> message.summary, color |-> message.color, read |-> FALSE]

RECURSIVE SelectUnread(_)
SelectUnread(ms) ==
  IF ms = <<>> THEN <<>>
  ELSE IF ~Head(ms).read THEN <<Head(ms)>> \o SelectUnread(Tail(ms))
       ELSE SelectUnread(Tail(ms))

MarkAll(ms) == [i \in 1..Len(ms) |-> [ms[i] EXCEPT !.read = TRUE]]

Stamp(ms) == {ms[i].timestamp : i \in 1..Len(ms)}

Bump(count, ms) ==
  [t \in DOMAIN count |-> IF t \in Stamp(ms) THEN count[t] + 1 ELSE count[t]]

\* JSON.parse(raw || "[]") gives an array: the file holds one, or is of zero
\* bytes and "[]" stands in for its content.
readable(f) == f.state \in {"json", "blank"}

\* Mutant of readable: the zero-byte file is parsed as it is, and "" is
\* not JSON.
readableJSON(f) == f.state = "json"

\* What readInbox(team, agent) returns when called in the current state:
\* no lock is taken.
readInbox(m) ==
  IF file[inboxPath(m)].state = "absent" THEN Ok(<<>>)
  ELSE IF ~readable(file[inboxPath(m)]) THEN Err("SyntaxError")
  ELSE Ok(file[inboxPath(m)].msgs)

\* Mutant of nothingUnread: the early return is never taken.
nothingUnreadNever(unread) == FALSE

\* if (unread.length === 0) return [];
nothingUnread(unread) == Len(unread) = 0

\* Where a call continues once writeInbox / readUnread has returned or thrown.
Continuation(o) ==
  CASE o = "poll" -> "deliver"
    [] o = "receive" -> "filter"
    [] o = "receiveAny" -> "filterAny"
    [] OTHER -> "return"

\* Mutant of ExitTry: `release` is called on the success path only, as with a
\* try block that has no `finally`.
ExitTryNoFinally(o, thrown) == IF thrown THEN Continuation(o) ELSE "release"

\* try { ... } finally { if (release) await release(); }: every exit of the
\* locked block, return or throw, passes through the release.
ExitTry(o, thrown) == "release"

\* Mutant of appendMessage: the entry is stored as already read.
appendMessageRead(ms, message) == Append(ms, [Entry(message) EXCEPT !.read = TRUE])

\* messages.push({ ...message, read: false })
appendMessage(ms, message) == Append(ms, Entry(message))

\* Mutant of markRead: the flags are left as they were.
markReadNone(ms) == ms

\* for (const m of messages) m.read = true
markRead(ms) == MarkAll(ms)

\* Mutant of lockIsFree: the lockfile is taken whether or not it exists.
lockIsFreeAlways(p) == TRUE

\* proper-lockfile takes the lock by creating the lockfile, which fails while
\* another holder's lockfile exists.  (A holder keeps its lockfile fresh, so
\* the staleness threshold is not reached while its operation is running.)
lockIsFree(p) == lock[lockTarget(arg[p].mailbox)] = NoProc

\* Mutant of retriesLeft: one retry fewer than LOCK_OPTIONS allows.
retriesLeftShort(p) == attempts[p] < LockRetries - 1

\* retries: { retries: 5 }: the first attempt and five more.
retriesLeft(p) == attempts[p] < LockRetries

\* A call that has its outcome hands it to its caller at once: nothing else
\* runs between the last statement of a call and its return.
Quiet == \A q \in Procs : pc[q] # "return"

\* The call returns (or throws) ret[p] to its caller; its locals are gone.
returns(p) ==
  /\ pc[p] = "return"
  /\ pc' = [pc EXCEPT ![p] = "idle"]
  /\ op' = [op EXCEPT ![p] = "none"]
  /\ arg' = [arg EXCEPT ![p] = NoArg]
  /\ messages' = [messages EXCEPT ![p] = <<>>]
  /\ attempts' = [attempts EXCEPT ![p] = 0]
  /\ ret' = [ret EXCEPT ![p] = NoRet]
  /\ rcv' = [rcv EXCEPT ![p] = NoRcv]
  /\ seen' = [seen EXCEPT ![p] = <<>>]
  /\ atLock' = [atLock EXCEPT ![p] = <<>>]
  /\ invoked' = [invoked EXCEPT ![p] = <<>>]
  /\ UNCHANGED <<file, lock, clock, calls, applied, returned, handled, poller,
                 taskStore>>

Return(p) ==
  /\ returns(p)
  /\ UNCHANGED coordination

\* --------------------------------------------------------- writeInbox
\* A caller starts writeInbox(team, m, message), the timestamp taken from the
\* clock.  ensureFile tests existsSync(filePath) in the call's first run; the
\* writeFile it then awaits takes effect in a later step.
writeInbox(p, m, message) ==
  /\ Quiet
  /\ pc[p] = "idle"
  /\ clock < MaxMsgs
  /\ clock' = clock + 1
  /\ op' = [op EXCEPT ![p] = "write"]
  /\ arg' = [arg EXCEPT ![p] =
               [mailbox |-> m,
                message |-> [from |-> message.from, text |-> message.text,
                             timestamp |-> clock + 1,
                             summary |-> message.summary, color |-> message.color],
                agent |-> Undefined, all |-> FALSE]]
  /\ pc' = [pc EXCEPT ![p] =
              IF file[inboxPath(m)].state = "absent" THEN "createFile" ELSE "lock"]
  /\ calls' = [calls EXCEPT ![m] = @ + 1]
  /\ UNCHANGED <<file, lock, messages, attempts, ret, rcv, applied, returned,
                 handled, atLock, seen>>
  /\ UNCHANGED <<poller, invoked, taskStore>>

CallWrite(p, m, message) ==
  /\ writeInbox(p, m, message)
  /\ UNCHANGED coordination

\* ensureFile: await writeFile(filePath, "[]"), outside the lock.
CreateFile(p) ==
  /\ Quiet
  /\ pc[p] = "createFile"
  /\ file' = [file EXCEPT ![inboxPath(arg[p].mailbox)] = EmptyFile]
  /\ pc' = [pc EXCEPT ![p] = "lock"]
  /\ UNCHANGED <<lock, op, arg, messages, attempts, ret, rcv, clock, history>>
  /\ UNCHANGED <<poller, invoked, taskStore, coordination>>

\* ------------------------------------------------ lock(path, LOCK_OPTIONS)
LockAcquire(p) ==
  /\ Quiet
  /\ pc[p] = "lock"
  /\ lockIsFree(p)
  /\ lock' = [lock EXCEPT ![lockTarget(arg[p].mailbox)] = p]
  /\ pc' = [pc EXCEPT ![p] = "readFile"]
  /\ attempts' = [attempts EXCEPT ![p] = 0]
  /\ atLock' = [atLock EXCEPT ![p] = SelectUnread(file[inboxPath(arg[p].mailbox)].msgs)]
  /\ UNCHANGED <<file, op, arg, messages, ret, rcv, clock,
                 calls, applied, returned, handled, seen>>
  /\ UNCHANGED <<poller, invoked, taskStore, coordination>>

LockRetry(p) ==
  /\ Quiet
  /\ pc[p] = "lock"
  /\ ~lockIsFree(p)
  /\ retriesLeft(p)
  /\ attempts' = [attempts EXCEPT ![p] = @ + 1]
  /\ UNCHANGED <<file, lock, op, arg, pc, messages, ret, rcv, clock, history>>
  /\ UNCHANGED <<poller, invoked, taskStore, coordination>>

\* The retries are used up: lock() rejects, `release` stays undefined and the
\* finally block releases nothing.
LockFail(p) ==
  /\ Quiet
  /\ pc[p] = "lock"
  /\ ~lockIsFree(p)
  /\ ~retriesLeft(p)
  /\ ret' = [ret EXCEPT ![p] = Err("ELOCKED")]
  /\ pc' = [pc EXCEPT ![p] = Continuation(op[p])]
  /\ UNCHANGED <<file, lock, op, arg, messages, attempts, rcv, clock, history>>
  /\ UNCHANGED <<poller, invoked, taskStore, coordination>>

\* ------------------------------------------- inside the lock: readFile
\* readFile rejects (an I/O error).
ReadFileFails(p) ==
  /\ Quiet
  /\ pc[p] = "readFile"
  /\ ret' = [ret EXCEPT ![p] = Err("EIO")]
  /\ pc' = [pc EXCEPT ![p] = ExitTry(op[p], TRUE)]
  /\ UNCHANGED <<file, lock, op, arg, messages, attempts, rcv, clock, history>>
  /\ UNCHANGED <<poller, invoked, taskStore, coordination>>

\* JSON.parse(raw || "[]") throws on a malformed file.
ReadFileMalformed(p) ==
  /\ Quiet
  /\ pc[p] = "readFile"
  /\ file[inboxPath(arg[p].mailbox)].state # "absent"
  /\ ~readable(file[inboxPath(arg[p].mailbox)])
  /\ ret' = [ret EXCEPT ![p] = Err("SyntaxError")]
  /\ pc' = [pc EXCEPT ![p] = ExitTry(op[p], TRUE)]
  /\ UNCHANGED <<file, lock, op, arg, messages, attempts, rcv, clock, history>>
  /\ UNCHANGED <<poller, invoked, taskStore, coordination>>

\* writeInbox: messages = JSON.parse(raw); messages.push(...); writeFile is
\* started.
WriteReadFile(p) ==
  /\ Quiet
  /\ pc[p] = "readFile"
  /\ op[p] = "write"
  /\ readable(file[inboxPath(arg[p].mailbox)])
  /\ messages' = [messages EXCEPT ![p] =
                    appendMessage(file[inboxPath(arg[p].mailbox)].msgs, arg[p].message)]
  /\ pc' = [pc EXCEPT ![p] = "writeFile"]
  /\ UNCHANGED <<file, lock, op, arg, attempts, ret, rcv, clock, history>>
  /\ UNCHANGED <<poller, invoked, taskStore, coordination>>

\* readUnread: messages = JSON.parse(raw); unread = messages.filter(!m.read);
\* with none unread it returns [] and writes nothing, else it marks all read
\* and starts writeFile.
UnreadReadFile(p) ==
  /\ Quiet
  /\ pc[p] = "readFile"
  /\ op[p] # "write"
  /\ readable(file[inboxPath(arg[p].mailbox)])
  /\ LET ms == file[inboxPath(arg[p].mailbox)].msgs
         unread == SelectUnread(ms)
     IN  IF nothingUnread(unread)
           THEN /\ ret' = [ret EXCEPT ![p] = Ok(<<>>)]
                /\ pc' = [pc EXCEPT ![p] = ExitTry(op[p], FALSE)]
                /\ UNCHANGED messages
           ELSE /\ ret' = [ret EXCEPT ![p] = Ok(unread)]
                /\ messages' = [messages EXCEPT ![p] = markRead(ms)]
                /\ pc' = [pc EXCEPT ![p] = "writeFile"]
  /\ UNCHANGED <<file, lock, op, arg, attempts, rcv, clock, history>>
  /\ UNCHANGED <<poller, invoked, taskStore, coordination>>

\* ------------------------------------------ inside the lock: writeFile
\* writeFile(path, JSON.stringify(messages)) replaces the file's content.
WriteFile(p) ==
  /\ Quiet
  /\ pc[p] = "writeFile"
  /\ file' = [file EXCEPT ![inboxPath(arg[p].mailbox)] = [state |-> "json", msgs |-> messages[p]]]
  /\ IF op[p] = "write"
       THEN /\ applied' = [applied EXCEPT ![arg[p].mailbox] = Append(@, arg[p].message)]
            /\ ret' = [ret EXCEPT ![p] = Ok(<<>>)]
       ELSE UNCHANGED <<applied, ret>>
  /\ pc' = [pc EXCEPT ![p] = ExitTry(op[p], FALSE)]
  /\ UNCHANGED <<lock, op, arg, messages, attempts, rcv, clock,
                 calls, returned, handled, atLock, seen>>
  /\ UNCHANGED <<poller, invoked, taskStore, coordination>>

\* writeFile rejects (an I/O error); the file keeps its content.
WriteFileFails(p) ==
  /\ Quiet
  /\ pc[p] = "writeFile"
  /\ ret' = [ret EXCEPT ![p] = Err("EIO")]
  /\ pc' = [pc EXCEPT ![p] = ExitTry(op[p], TRUE)]
  /\ UNCHANGED <<file, lock, op, arg, messages, attempts, rcv, clock, history>>
  /\ UNCHANGED <<poller, invoked, taskStore, coordination>>

\* finally { if (release) await release(); } and the call returns or rethrows.
Release(p) ==
  /\ Quiet
  /\ pc[p] = "release"
  /\ lock' = [lock EXCEPT ![lockTarget(arg[p].mailbox)] = NoProc]
  /\ pc' = [pc EXCEPT ![p] = Continuation(op[p])]
  /\ returned' = IF op[p] # "write" /\ ret[p].status = "ok"
                   THEN Bump(returned, ret[p].value) ELSE returned
  /\ UNCHANGED <<file, op, arg, messages, attempts, ret, rcv, clock,
                 calls, applied, handled, atLock, seen>>
  /\ UNCHANGED <<poller, invoked, taskStore, coordination>>

\* ---------------------------------------------------------- readUnread
\* Mutant of EnterReadUnread: the existsSync test is left out.
EnterReadUnreadUntested(p, o, m) ==
  /\ ret' = [ret EXCEPT ![p] = NoRet]
  /\ pc' = [pc EXCEPT ![p] = "lock"]

\* readUnread's first run: if (!existsSync(path)) return []; else lock().
EnterReadUnread(p, o, m) ==
  IF file[inboxPath(m)].state = "absent"
    THEN /\ ret' = [ret EXCEPT ![p] = Ok(<<>>)]
         /\ pc' = [pc EXCEPT ![p] = Continuation(o)]
    ELSE /\ ret' = [ret EXCEPT ![p] = NoRet]
         /\ pc' = [pc EXCEPT ![p] = "lock"]

\* A caller starts readUnread(team, m).
CallReadUnread(p, m) ==
  /\ Quiet
  /\ pc[p] = "idle"
  /\ op' = [op EXCEPT ![p] = "readUnread"]
  /\ arg' = [arg EXCEPT ![p] = [NoArg EXCEPT !.mailbox = m]]
  /\ EnterReadUnread(p, "readUnread", m)
  /\ UNCHANGED <<file, lock, messages, attempts, rcv, clock, history>>
  /\ UNCHANGED <<poller, invoked, taskStore, coordination>>

\* ----------------------------------------------------------- readInbox
\* A caller starts readInbox(team, m): if (!existsSync(path)) return [];
\* else readFile is awaited, with no lock.
CallReadInbox(p, m) ==
  /\ Quiet
  /\ pc[p] = "idle"
  /\ op' = [op EXCEPT ![p] = "readInbox"]
  /\ arg' = [arg EXCEPT ![p] = [NoArg EXCEPT !.mailbox = m]]
  /\ IF file[inboxPath(m)].state = "absent"
       THEN /\ ret' = [ret EXCEPT ![p] = Ok(<<>>)]
            /\ pc' = [pc EXCEPT ![p] = "return"]
       ELSE /\ ret' = [ret EXCEPT ![p] = NoRet]
            /\ pc' = [pc EXCEPT ![p] = "readAll"]
  /\ UNCHANGED <<file, lock, messages, attempts, rcv, clock, history>>
  /\ UNCHANGED <<poller, invoked, taskStore, coordination>>

\* readFile has the content as it is now; return JSON.parse(raw || "[]").
ReadInboxFile(p) ==
  /\ Quiet
  /\ pc[p] = "readAll"
  /\ ret' = [ret EXCEPT ![p] = readInbox(arg[p].mailbox)]
  /\ pc' = [pc EXCEPT ![p] = "return"]
  /\ UNCHANGED <<file, lock, op, arg, messages, attempts, rcv, clock, history>>
  /\ UNCHANGED <<poller, invoked, taskStore, coordination>>

\* ------------------------------------------------------ InboxPoller.poll
\* The interval timer (or a caller) starts poll(), which calls readUnread on
\* the poller's inbox; a poll still running does not hold the next one back.
CallPoll(p) ==
  /\ Quiet
  /\ pc[p] = "idle"
  /\ op' = [op EXCEPT ![p] = "poll"]
  /\ arg' = [arg EXCEPT ![p] = NoArg]
  /\ EnterReadUnread(p, "poll", ControllerInbox)
  /\ UNCHANGED <<file, lock, messages, attempts, rcv, clock, history>>
  /\ UNCHANGED <<poller, invoked, taskStore, coordination>>

\* Mutant of PollEvents: every entry is paired with a plain-text message,
\* its payload left unparsed.
PollEventsUnparsed(unread) ==
  [i \in 1..Len(unread) |->
     [raw |-> unread[i], parsed |-> [type |-> "plain_text", text |-> unread[i].text]]]

\* unread.map((raw) => ({ raw, parsed: parseMessage(raw) }))
PollEvents(unread) ==
  [i \in 1..Len(unread) |-> [raw |-> unread[i], parsed |-> parseMessage(unread[i])]]

\* The handlers a test or the coordinator registers: the coordinator's event
\* wiring, and a handler that throws.
Handlers == {"wiring", "exploding"}

\* The coordinator's event wiring (spec.md, 4.5): the event an entry of the
\* batch is routed to.
eventName(type) ==
  CASE type = "idle_notification" -> "idle"
    [] type = "shutdown_approved" -> "shutdown:approved"
    [] type = "plan_approval_request" -> "plan:approval_request"
    [] type = "permission_request" -> "permission:request"
    [] OTHER -> "message"

\* The events the wiring emits for a batch: one per entry, with the sender.
emitEvents(events) ==
  [i \in 1..Len(events) |->
     [name |-> eventName(events[i].parsed.type), agent |-> events[i].raw.from]]

\* handler(events): what one invocation does.
invoke(h, events) ==
  [handler |-> h, batch |-> events,
   emitted |-> IF h = "wiring" THEN emitEvents(events) ELSE <<>>,
   threw |-> h = "exploding"]

\* Mutant of runHandlers: no try/catch around the handler, so the loop ends
\* at the first handler that throws.
RECURSIVE runHandlersUntilThrow(_, _)
runHandlersUntilThrow(hs, events) ==
  IF hs = <<>> THEN <<>>
  ELSE IF invoke(Head(hs), events).threw THEN <<invoke(Head(hs), events)>>
       ELSE <<invoke(Head(hs), events)>> \o runHandlersUntilThrow(Tail(hs), events)

\* for (const handler of this.handlers) { try { handler(events) } catch {} }
runHandlers(hs, events) == [i \in 1..Len(hs) |-> invoke(hs[i], events)]

\* Mutant of noUnread: the early return is never taken.
noUnreadNever(unread) == FALSE

\* if (unread.length === 0) return [];
noUnread(unread) == Len(unread) = 0

\* Mutant of caught: poll has no outer try / catch, and what readUnread
\* throws is thrown on.
caughtNot(r) == r

\* catch (err) { this.log.error("Inbox poll error:", String(err)); return [] }
caught(r) == Ok(<<>>)

\* poll() after readUnread: an error is logged and [] returned; an empty batch
\* returns [] with no handler invoked; otherwise every handler is invoked
\* with the batch, which is then returned.
Deliver(p) ==
  /\ Quiet
  /\ pc[p] = "deliver"
  /\ IF ret[p].status = "error"
       THEN /\ ret' = [ret EXCEPT ![p] = caught(ret[p])]
            /\ UNCHANGED <<handled, invoked>>
       ELSE IF noUnread(ret[p].value)
         THEN /\ ret' = [ret EXCEPT ![p] = Ok(<<>>)]
              /\ UNCHANGED <<handled, invoked>>
         ELSE /\ ret' = [ret EXCEPT ![p] = Ok(PollEvents(ret[p].value))]
              /\ handled' = Bump(handled, ret[p].value)
              /\ invoked' = [invoked EXCEPT ![p] =
                               runHandlers(handlers, PollEvents(ret[p].value))]
  /\ pc' = [pc EXCEPT ![p] = "return"]
  /\ UNCHANGED <<file, lock, op, arg, messages, attempts, rcv, clock,
                 calls, applied, returned, atLock, seen, poller, taskStore, coordination>>

\* onMessages(handler): this.handlers.push(handler)
OnMessages(h) ==
  /\ Quiet
  /\ Len(handlers) < MaxHandlers
  /\ handlers' = Append(handlers, h)
  /\ UNCHANGED <<file, lock, op, pc, arg, messages, attempts, ret, rcv, clock,
                 timer, timers, history, invoked, taskStore, coordination>>

\* Mutant of alreadyStarted: start() does not test the timer.
alreadyStartedNever(t) == FALSE

\* if (this.timer) return;
alreadyStarted(t) == t # NoTimer

\* The handles setInterval can return.
TimerIds == 1..MaxTimers

\* start(): a no-op while running, else this.timer = setInterval(...).
Start ==
  /\ Quiet
  /\ IF alreadyStarted(timer)
       THEN UNCHANGED <<timer, timers>>
       ELSE \E id \in TimerIds \ timers :
              /\ timer' = id
              /\ timers' = timers \cup {id}
  /\ UNCHANGED <<file, lock, op, pc, arg, messages, attempts, ret, rcv, clock,
                 handlers, history, invoked, taskStore, coordination>>

\* stop(): clearInterval(this.timer) and this.timer = null, if there is one.
Stop ==
  /\ Quiet
  /\ IF timer # NoTimer
       THEN /\ timers' = timers \ {timer}
            /\ timer' = NoTimer
       ELSE UNCHANGED <<timer, timers>>
  /\ UNCHANGED <<file, lock, op, pc, arg, messages, attempts, ret, rcv, clock,
                 handlers, history, invoked, taskStore, coordination>>

\* An interval that is set fires: () => this.poll()
Tick(p) ==
  /\ timers # {}
  /\ CallPoll(p)

\* -------------------------------------------- receive (spec.md, 4.5)
\* Signal-only types: never the content a receive() waits for.
SignalTypes == {"idle_notification", "shutdown_approved"}

RECURSIVE FromAgent(_, _)
FromAgent(ms, agent) ==
  IF ms = <<>> THEN <<>>
  ELSE IF Head(ms).from = agent THEN <<Head(ms)>> \o FromAgent(Tail(ms), agent)
       ELSE FromAgent(Tail(ms), agent)

RECURSIVE OfContent(_)
OfContent(ms) ==
  IF ms = <<>> THEN <<>>
  ELSE IF parseMessage(Head(ms)).type \notin SignalTypes
         THEN <<Head(ms)>> \o OfContent(Tail(ms))
         ELSE OfContent(Tail(ms))

RECURSIVE OfIdle(_)
OfIdle(ms) ==
  IF ms = <<>> THEN <<>>
  ELSE IF parseMessage(Head(ms)).type = "idle_notification"
         THEN <<Head(ms)>> \o OfIdle(Tail(ms))
         ELSE OfIdle(Tail(ms))

\* A caller starts receive(agent, {timeout, pollInterval, all}); the first
\* scan follows at once.
CallReceive(p, agent, all) ==
  /\ Quiet
  /\ pc[p] = "idle"
  /\ op' = [op EXCEPT ![p] = "receive"]
  /\ arg' = [arg EXCEPT ![p] = [NoArg EXCEPT !.agent = agent, !.all = all]]
  /\ EnterReadUnread(p, "receive", ControllerInbox)
  /\ rcv' = [rcv EXCEPT ![p] = [NoRcv EXCEPT !.scans = 1]]
  /\ UNCHANGED <<file, lock, messages, attempts, clock, history>>
  /\ UNCHANGED <<poller, invoked, taskStore, coordination>>

\* Mutant of Fallback: the remembered idle notification is not used.
FallbackNone(r) == IF r.acc # <<>> THEN Ok(r.acc) ELSE Err("Timeout")

\* What receive() ends with when its deadline has passed: what it accumulated
\* (all), else the idle notification it observed, else Timeout.
Fallback(r) ==
  IF r.acc # <<>> THEN Ok(r.acc)
  ELSE IF r.fallback # <<>> THEN Ok(r.fallback)
  ELSE Err("Timeout")

\* One scan's outcome: an error of readUnread is the caller's; content from
\* the agent ends the call unless `all` is set; otherwise content is
\* accumulated, an idle notification remembered, and the loop sleeps.
Filter(p) ==
  /\ Quiet
  /\ pc[p] = "filter"
  /\ IF ret[p].status = "error"
       THEN /\ pc' = [pc EXCEPT ![p] = "return"]
            /\ UNCHANGED <<ret, rcv, seen>>
       ELSE LET fromAgent == FromAgent(ret[p].value, arg[p].agent)
                content == OfContent(fromAgent)
                idle == OfIdle(fromAgent)
            IN  /\ seen' = [seen EXCEPT ![p] = @ \o ret[p].value]
                /\ IF content # <<>> /\ ~arg[p].all
                     THEN /\ ret' = [ret EXCEPT ![p] = Ok(content)]
                          /\ pc' = [pc EXCEPT ![p] = "return"]
                          /\ UNCHANGED rcv
                     ELSE /\ rcv' = [rcv EXCEPT ![p].acc = @ \o content,
                                                ![p].fallback =
                                                  IF @ = <<>> /\ idle # <<>>
                                                    THEN <<idle[1]>> ELSE @]
                          /\ ret' = [ret EXCEPT ![p] = NoRet]
                          /\ pc' = [pc EXCEPT ![p] = "sleep"]
  /\ UNCHANGED <<file, lock, op, arg, messages, attempts, clock,
                 calls, applied, returned, handled, atLock>>
  /\ UNCHANGED <<poller, invoked, taskStore, coordination>>

\* ---------------------------------------- receiveAny (spec.md, 4.5)
\* The entries of a scan that are not idle notifications.
RECURSIVE NotIdle(_)
NotIdle(ms) ==
  IF ms = <<>> THEN <<>>
  ELSE IF parseMessage(Head(ms)).type # "idle_notification"
         THEN <<Head(ms)>> \o NotIdle(Tail(ms))
         ELSE NotIdle(Tail(ms))

\* A caller starts receiveAny({timeout, pollInterval}): the same loop, no
\* sender filter.
CallReceiveAny(p) ==
  /\ Quiet
  /\ pc[p] = "idle"
  /\ op' = [op EXCEPT ![p] = "receiveAny"]
  /\ arg' = [arg EXCEPT ![p] = NoArg]
  /\ EnterReadUnread(p, "receiveAny", ControllerInbox)
  /\ rcv' = [rcv EXCEPT ![p] = [NoRcv EXCEPT !.scans = 1]]
  /\ UNCHANGED <<file, lock, messages, attempts, clock, history>>
  /\ UNCHANGED <<poller, invoked, taskStore, coordination>>

\* The call's result: the first of the entries kept.
firstOf(scan, kept) == <<kept[1]>>

\* One scan's outcome for receiveAny: an error of readUnread is the
\* caller's; idle notifications are discarded; the first remaining message
\* ends the call; with none the loop sleeps, remembering nothing.
FilterAny(p) ==
  /\ Quiet
  /\ pc[p] = "filterAny"
  /\ IF ret[p].status = "error"
       THEN /\ pc' = [pc EXCEPT ![p] = "return"]
            /\ UNCHANGED <<ret, seen>>
       ELSE /\ seen' = [seen EXCEPT ![p] = @ \o ret[p].value]
            /\ IF NotIdle(ret[p].value) # <<>>
                 THEN /\ ret' = [ret EXCEPT ![p] =
                                   Ok(firstOf(ret[p].value, NotIdle(ret[p].value)))]
                      /\ pc' = [pc EXCEPT ![p] = "return"]
                 ELSE /\ ret' = [ret EXCEPT ![p] = NoRet]
                      /\ pc' = [pc EXCEPT ![p] = "sleep"]
  /\ UNCHANGED <<file, lock, op, arg, messages, attempts, rcv, clock,
                 calls, applied, returned, handled, atLock>>
  /\ UNCHANGED <<poller, invoked, taskStore, coordination>>

\* await sleep(pollInterval), the deadline not yet reached: the next scan
\* calls readUnread again.
Rescan(p) ==
  /\ Quiet
  /\ pc[p] = "sleep"
  /\ rcv[p].scans < MaxScans
  /\ rcv' = [rcv EXCEPT ![p].scans = @ + 1]
  /\ messages' = [messages EXCEPT ![p] = <<>>]
  /\ atLock' = [atLock EXCEPT ![p] = <<>>]
  /\ EnterReadUnread(p, op[p], ControllerInbox)
  /\ UNCHANGED <<file, lock, op, arg, attempts, clock,
                 calls, applied, returned, handled, seen>>
  /\ UNCHANGED <<poller, invoked, taskStore, coordination>>

\* await sleep(pollInterval), the deadline passed: the loop ends.
Deadline(p) ==
  /\ Quiet
  /\ pc[p] = "sleep"
  /\ ret' = [ret EXCEPT ![p] = Fallback(rcv[p])]
  /\ pc' = [pc EXCEPT ![p] = "return"]
  /\ UNCHANGED <<file, lock, op, arg, messages, attempts, rcv, clock, history>>
  /\ UNCHANGED <<poller, invoked, taskStore, coordination>>

\* ------------------------------------------------------------ TaskManager
\* array.includes(x)
includes(array, x) == \E i \in 1..Len(array) : array[i] = x

\* existsSync(taskPath(team, id))
taskExists(ts, id) == id \in TaskIds /\ ts[id] # NoTask

TaskQuiet == \A c \in TaskCallers : tcall[c].pc # "return"

\* Mutant of assign: the fields that are not in updates are reset.
assignOnly(task, updates) ==
  [f \in DOMAIN task |-> IF f \in DOMAIN updates THEN updates[f]
                         ELSE IF f = "id" THEN task.id ELSE NoTask[f]]

\* Object.assign(task, updates)
assign(task, updates) ==
  [f \in DOMAIN task |-> IF f \in DOMAIN updates THEN updates[f] ELSE task[f]]

\* blockedTaskIds.filter((id) => !task.blocks.includes(id))
toAddOf(blockedTaskIds, task) ==
  SelectSeq(blockedTaskIds, LAMBDA id : ~includes(task.blocks, id))

\* get(id), first run: throws if the file does not exist, else readFile.
enterGet(call, ts, id) ==
  IF taskExists(ts, id)
    THEN [call EXCEPT !.pc = "readFile"]
    ELSE [call EXCEPT !.pc = "return", !.ret = Err("NotFound")]

\* The file get() reads: the task itself, or the k-th id of toAdd.
target(call) == IF call.k = 0 THEN call.taskId ELSE call.toAdd[call.k]

\* addBlocks' loop reaches the k-th id of toAdd: get(blockedId), or the end.
nextBlocked(call, ts, k) ==
  IF k > Len(call.toAdd)
    THEN [call EXCEPT !.pc = "return", !.ret = Ok(<<>>), !.k = k]
    ELSE enterGet([call EXCEPT !.k = k], ts, call.toAdd[k])

\* create(task): the id is taken, the task built, writeTask awaited.
create(c, fields) ==
  /\ TaskQuiet
  /\ tcall[c].pc = "idle"
  /\ taskCalls < MaxTaskCalls
  /\ taskCalls' = taskCalls + 1
  /\ nextId <= MaxTasks
  /\ nextId' = nextId + 1
  /\ tcall' = [tcall EXCEPT ![c] =
       [NoCall EXCEPT
          !.op = "create", !.pc = "writeTask", !.taskId = String(nextId),
          !.task = [id |-> String(nextId),
                    subject |-> fields.subject,
                    owner |-> IF "owner" \in DOMAIN fields
                                THEN fields.owner ELSE Undefined,
                    status |-> IF "status" \in DOMAIN fields
                                 THEN fields.status ELSE "pending",
                    blocks |-> IF "blocks" \in DOMAIN fields
                                 THEN fields.blocks ELSE <<>>,
                    blockedBy |-> IF "blockedBy" \in DOMAIN fields
                                    THEN fields.blockedBy ELSE <<>>]]]
  /\ tasksAtCall' = [tasksAtCall EXCEPT ![c] = tasks]
  /\ UNCHANGED <<tasks, taskHistory>>
  /\ UNCHANGED <<file, lock, op, pc, arg, messages, attempts, ret, rcv, clock,
                 poller, history, invoked>>

CallCreate(c, fields) ==
  /\ create(c, fields)
  /\ UNCHANGED coordination

\* update(taskId, updates): get(taskId) first.
update(c, taskId, updates) ==
  /\ TaskQuiet
  /\ tcall[c].pc = "idle"
  /\ taskCalls < MaxTaskCalls
  /\ taskCalls' = taskCalls + 1
  /\ tcall' = [tcall EXCEPT ![c] =
       enterGet([NoCall EXCEPT !.op = "update", !.taskId = taskId,
                               !.updates = updates], tasks, taskId)]
  /\ tasksAtCall' = [tasksAtCall EXCEPT ![c] = tasks]
  /\ UNCHANGED <<tasks, nextId, taskHistory>>
  /\ UNCHANGED <<file, lock, op, pc, arg, messages, attempts, ret, rcv, clock,
                 poller, history, invoked>>

CallUpdate(c, taskId, updates) ==
  /\ update(c, taskId, updates)
  /\ UNCHANGED coordination

\* addBlocks(taskId, blockedTaskIds): get(taskId) first.
CallAddBlocks(c, taskId, blockedTaskIds) ==
  /\ TaskQuiet
  /\ tcall[c].pc = "idle"
  /\ taskCalls < MaxTaskCalls
  /\ taskCalls' = taskCalls + 1
  /\ tcall' = [tcall EXCEPT ![c] =
       enterGet([NoCall EXCEPT !.op = "addBlocks", !.taskId = taskId,
                               !.blockedTaskIds = blockedTaskIds],
                tasks, taskId)]
  /\ tasksAtCall' = [tasksAtCall EXCEPT ![c] = tasks]
  /\ UNCHANGED <<tasks, nextId, taskHistory>>
  /\ UNCHANGED <<file, lock, op, pc, arg, messages, attempts, ret, rcv, clock,
                 poller, history, invoked, coordination>>

\* delete(taskId): rm(path) if the file exists.
CallDelete(c, taskId) ==
  /\ TaskQuiet
  /\ tcall[c].pc = "idle"
  /\ taskCalls < MaxTaskCalls
  /\ taskCalls' = taskCalls + 1
  /\ tcall' = [tcall EXCEPT ![c] =
       IF taskExists(tasks, taskId)
         THEN [NoCall EXCEPT !.op = "delete", !.pc = "rm", !.taskId = taskId]
         ELSE [NoCall EXCEPT !.op = "delete", !.pc = "return",
                             !.taskId = taskId, !.ret = Ok(<<>>)]]
  /\ tasksAtCall' = [tasksAtCall EXCEPT ![c] = tasks]
  /\ deleted' = TRUE
  /\ UNCHANGED <<tasks, nextId, created, initialised>>
  /\ UNCHANGED <<file, lock, op, pc, arg, messages, attempts, ret, rcv, clock,
                 poller, history, invoked, coordination>>

\* get()'s readFile and JSON.parse, and what the caller does with the task
\* up to its next await.
ReadTask(c) ==
  LET call == tcall[c]
      read == tasks[target(call)]
  IN /\ TaskQuiet
     /\ call.pc = "readFile"
     /\ tcall' = [tcall EXCEPT ![c] =
          IF read = NoTask
            THEN [call EXCEPT !.pc = "return", !.ret = Err("ENOENT")]
          ELSE IF call.op = "get"
            THEN [call EXCEPT !.pc = "return", !.ret = Ok(read)]
          ELSE IF call.op = "waitFor"
            THEN IF read.status = call.targetStatus
                   THEN [call EXCEPT !.pc = "return", !.ret = Ok(read)]
                   ELSE [call EXCEPT !.pc = "sleep"]
          ELSE IF call.op = "update"
            THEN [call EXCEPT !.pc = "writeTask",
                              !.task = assign(read, call.updates)]
          ELSE IF call.k = 0
            THEN [call EXCEPT
                    !.pc = "writeTask",
                    !.toAdd = toAddOf(call.blockedTaskIds, read),
                    !.task = [read EXCEPT !.blocks =
                                read.blocks \o toAddOf(call.blockedTaskIds, read)]]
          ELSE IF includes(read.blockedBy, call.taskId)
            THEN nextBlocked(call, tasks, call.k + 1)
            ELSE [call EXCEPT
                    !.pc = "writeTask",
                    !.task = [read EXCEPT !.blockedBy =
                                Append(read.blockedBy, call.taskId)]]]
     /\ UNCHANGED <<tasks, nextId, taskCalls, tasksAtCall, taskHistory>>
     /\ UNCHANGED <<file, lock, op, pc, arg, messages, attempts, ret, rcv, clock,
                 poller, history, invoked, coordination>>

\* writeTask(task): writeFile(taskPath(team, task.id), JSON.stringify(task)),
\* and the caller's code up to its next await.
WriteTask(c) ==
  LET call == tcall[c]
      written == [tasks EXCEPT ![call.task.id] = call.task]
  IN /\ TaskQuiet
     /\ call.pc = "writeTask"
     /\ tasks' = written
     /\ tcall' = [tcall EXCEPT ![c] =
          IF call.op = "create"
            THEN [call EXCEPT !.pc = "return", !.ret = Ok(call.taskId)]
          ELSE IF call.op = "update"
            THEN [call EXCEPT !.pc = "return", !.ret = Ok(call.task)]
            ELSE nextBlocked(call, written, call.k + 1)]
     /\ UNCHANGED <<nextId, taskCalls, tasksAtCall, taskHistory>>
     /\ UNCHANGED <<file, lock, op, pc, arg, messages, attempts, ret, rcv, clock,
                 poller, history, invoked, coordination>>

\* Mutant of removeFile: rm leaves the file in place.
removeFileNot(ts, id) == ts

\* The task directory after rm(taskPath(team, id)).
removeFile(ts, id) == [ts EXCEPT ![id] = NoTask]

\* rm(path)
Rm(c) ==
  LET call == tcall[c]
  IN /\ TaskQuiet
     /\ call.pc = "rm"
     /\ IF taskExists(tasks, call.taskId)
          THEN /\ tasks' = removeFile(tasks, call.taskId)
               /\ tcall' = [tcall EXCEPT ![c] =
                              [call EXCEPT !.pc = "return", !.ret = Ok(<<>>)]]
          ELSE /\ UNCHANGED tasks
               /\ tcall' = [tcall EXCEPT ![c] =
                              [call EXCEPT !.pc = "return", !.ret = Err("ENOENT")]]
     /\ UNCHANGED <<nextId, taskCalls, tasksAtCall, taskHistory>>
     /\ UNCHANGED <<file, lock, op, pc, arg, messages, attempts, ret, rcv, clock,
                 poller, history, invoked, coordination>>

\* The call returns (or throws) its outcome; its locals are gone.
taskReturns(c) ==
  /\ tcall[c].pc = "return"
  /\ tcall' = [tcall EXCEPT ![c] = NoCall]
  /\ tasksAtCall' = [tasksAtCall EXCEPT ![c] = [i \in TaskIds |-> NoTask]]
  /\ created' = IF tcall[c].op = "create" /\ tcall[c].ret.status = "ok"
                  THEN created \cup {tcall[c].ret.value} ELSE created
  /\ UNCHANGED <<tasks, nextId, taskCalls, deleted, initialised>>
  /\ UNCHANGED <<file, lock, op, pc, arg, messages, attempts, ret, rcv, clock,
                 poller, history, invoked>>

TaskReturn(c) ==
  /\ taskReturns(c)
  /\ UNCHANGED coordination

\* get(taskId)
CallGet(c, taskId) ==
  /\ TaskQuiet
  /\ tcall[c].pc = "idle"
  /\ taskCalls < MaxTaskCalls
  /\ taskCalls' = taskCalls + 1
  /\ tcall' = [tcall EXCEPT ![c] =
       enterGet([NoCall EXCEPT !.op = "get", !.taskId = taskId], tasks, taskId)]
  /\ tasksAtCall' = [tasksAtCall EXCEPT ![c] = tasks]
  /\ UNCHANGED <<tasks, nextId, taskHistory>>
  /\ UNCHANGED <<file, lock, op, pc, arg, messages, attempts, ret, rcv, clock,
                 poller, history, invoked, coordination>>

\* ------------------------------------------------- TaskManager.init, list
\* The orders in which readdir can name the files of the set S.
Orders(S) ==
  {f \in [1..Cardinality(S) -> S] : \A i, j \in DOMAIN f : f[i] = f[j] => i = j}

\* tasks.sort((a, b) => parseInt(a.id) - parseInt(b.id))
RECURSIVE sortById(_)
sortById(ts) ==
  IF ts = <<>> THEN <<>>
  ELSE LET rest == sortById(Tail(ts))
           before == SelectSeq(rest, LAMBDA t :
                                 parseInt(t.id) - parseInt(Head(ts).id) <= 0)
           after == SelectSeq(rest, LAMBDA t :
                                parseInt(t.id) - parseInt(Head(ts).id) > 0)
       IN before \o <<Head(ts)>> \o after

\* Math.max(...existing.map((t) => parseInt(t.id, 10)))
maxId(existing) ==
  CHOOSE m \in {parseInt(existing[i].id) : i \in 1..Len(existing)} :
    \A i \in 1..Len(existing) : parseInt(existing[i].id) <= m

\* Mutant of nextIdAfterScan: the counter is set to the highest id found.
nextIdAtMax(existing, current) ==
  IF Len(existing) > 0 THEN maxId(existing) ELSE current

\* init() after its scan: if (existing.length > 0) this.nextId = maxId + 1
nextIdAfterScan(existing, current) ==
  IF Len(existing) > 0 THEN maxId(existing) + 1 ELSE current

\* list() has read every file: the sorted tasks go to its caller, which is
\* init() or the caller of list().
listed(call, read) ==
  [call EXCEPT !.pc = "return", !.read = sortById(read),
               !.ret = IF call.op = "init" THEN Ok(<<>>) ELSE Ok(sortById(read))]

\* init(): mkdir(dir, { recursive: true }) is awaited first.
CallInit(c) ==
  /\ TaskQuiet
  /\ tcall[c].pc = "idle"
  /\ tcall' = [tcall EXCEPT ![c] = [NoCall EXCEPT !.op = "init", !.pc = "mkdir"]]
  /\ tasksAtCall' = [tasksAtCall EXCEPT ![c] = tasks]
  /\ UNCHANGED <<tasks, nextId, taskCalls, taskHistory>>
  /\ UNCHANGED <<file, lock, op, pc, arg, messages, attempts, ret, rcv, clock,
                 poller, history, invoked, coordination>>

\* mkdir on the directory the team was created with; then list() finds the
\* directory and awaits readdir.
Mkdir(c) ==
  /\ TaskQuiet
  /\ tcall[c].pc = "mkdir"
  /\ tcall' = [tcall EXCEPT ![c].pc = "readdir"]
  /\ UNCHANGED <<tasks, nextId, taskCalls, tasksAtCall, taskHistory>>
  /\ UNCHANGED <<file, lock, op, pc, arg, messages, attempts, ret, rcv, clock,
                 poller, history, invoked, coordination>>

\* list(): the directory exists, readdir is awaited.
CallList(c) ==
  /\ TaskQuiet
  /\ tcall[c].pc = "idle"
  /\ taskCalls < MaxTaskCalls
  /\ taskCalls' = taskCalls + 1
  /\ tcall' = [tcall EXCEPT ![c] = [NoCall EXCEPT !.op = "list", !.pc = "readdir"]]
  /\ tasksAtCall' = [tasksAtCall EXCEPT ![c] = tasks]
  /\ UNCHANGED <<tasks, nextId, taskHistory>>
  /\ UNCHANGED <<file, lock, op, pc, arg, messages, attempts, ret, rcv, clock,
                 poller, history, invoked, coordination>>

\* readdir(dir) names the task files, in an order of its own.
Readdir(c) ==
  LET call == tcall[c]
  IN /\ TaskQuiet
     /\ call.pc = "readdir"
     /\ \E files \in Orders({id \in TaskIds : taskExists(tasks, id)}) :
          IF files = <<>>
            THEN /\ tcall' = [tcall EXCEPT ![c] = listed(call, <<>>)]
                 /\ nextId' = IF call.op = "init"
                                THEN nextIdAfterScan(<<>>, nextId) ELSE nextId
                 /\ initialised' = (initialised \/ call.op = "init")
            ELSE /\ tcall' = [tcall EXCEPT ![c] =
                                [call EXCEPT !.pc = "readListed",
                                             !.files = files, !.k = 1]]
                 /\ UNCHANGED <<nextId, initialised>>
     /\ UNCHANGED <<tasks, taskCalls, tasksAtCall, created, deleted>>
     /\ UNCHANGED <<file, lock, op, pc, arg, messages, attempts, ret, rcv, clock,
                 poller, history, invoked, coordination>>

\* list()'s loop: readFile and JSON.parse of the k-th file; after the last
\* one the tasks are sorted and, in init(), the counter is set.
ReadListed(c) ==
  LET call == tcall[c]
      read == tasks[call.files[call.k]]
      all == Append(call.read, read)
  IN /\ TaskQuiet
     /\ call.pc = "readListed"
     /\ IF read = NoTask
          THEN /\ tcall' = [tcall EXCEPT ![c] =
                              [call EXCEPT !.pc = "return", !.ret = Err("ENOENT")]]
               /\ UNCHANGED <<nextId, initialised>>
          ELSE IF call.k < Len(call.files)
            THEN /\ tcall' = [tcall EXCEPT ![c] =
                                [call EXCEPT !.read = all, !.k = call.k + 1]]
                 /\ UNCHANGED <<nextId, initialised>>
            ELSE /\ tcall' = [tcall EXCEPT ![c] = listed(call, all)]
                 /\ nextId' = IF call.op = "init"
                                THEN nextIdAfterScan(sortById(all), nextId)
                                ELSE nextId
                 /\ initialised' = (initialised \/ call.op = "init")
     /\ UNCHANGED <<tasks, taskCalls, tasksAtCall, created, deleted>>
     /\ UNCHANGED <<file, lock, op, pc, arg, messages, attempts, ret, rcv, clock,
                 poller, history, invoked, coordination>>

\* The process ends and a new one makes a TaskManager on the same directory:
\* private nextId = 1
Restart ==
  /\ \A c \in TaskCallers : tcall[c].pc = "idle"
  /\ nextId # 1 \/ initialised \/ created # {}
  /\ nextId' = 1
  /\ created' = {}
  /\ initialised' = FALSE
  /\ UNCHANGED <<tasks, tcall, taskCalls, tasksAtCall, deleted>>
  /\ UNCHANGED <<file, lock, op, pc, arg, messages, attempts, ret, rcv, clock,
                 poller, history, invoked, coordination>>

\* ---------------------------------------------------- TaskManager.waitFor
\* waitFor(taskId, targetStatus, opts): the deadline is ahead, get(taskId).
CallWaitFor(c, taskId, targetStatus) ==
  /\ TaskQuiet
  /\ tcall[c].pc = "idle"
  /\ tcall' = [tcall EXCEPT ![c] =
       enterGet([NoCall EXCEPT !.op = "waitFor", !.taskId = taskId,
                               !.targetStatus = targetStatus, !.fetches = 1],
                tasks, taskId)]
  /\ tasksAtCall' = [tasksAtCall EXCEPT ![c] = tasks]
  /\ UNCHANGED <<tasks, nextId, taskCalls, taskHistory>>
  /\ UNCHANGED <<file, lock, op, pc, arg, messages, attempts, ret, rcv, clock,
                 poller, history, invoked, coordination>>

\* sleep(interval) is over and Date.now() < deadline: get(taskId) again.
WaitAgain(c) ==
  LET call == tcall[c]
  IN /\ TaskQuiet
     /\ call.pc = "sleep"
     /\ call.fetches < MaxFetches
     /\ tcall' = [tcall EXCEPT ![c] =
          enterGet([call EXCEPT !.fetches = call.fetches + 1], tasks, call.taskId)]
     /\ UNCHANGED <<tasks, nextId, taskCalls, tasksAtCall, taskHistory>>
     /\ UNCHANGED <<file, lock, op, pc, arg, messages, attempts, ret, rcv, clock,
                 poller, history, invoked, coordination>>

\* sleep(interval) is over and the deadline has passed: Timeout is thrown.
WaitDeadline(c) ==
  LET call == tcall[c]
  IN /\ TaskQuiet
     /\ call.pc = "sleep"
     /\ tcall' = [tcall EXCEPT ![c] =
                    [call EXCEPT !.pc = "return", !.ret = Err("Timeout")]]
     /\ UNCHANGED <<tasks, nextId, taskCalls, tasksAtCall, taskHistory>>
     /\ UNCHANGED <<file, lock, op, pc, arg, messages, attempts, ret, rcv, clock,
                 poller, history, invoked, coordination>>

\* --------------------------------------------------------- TeamManager
\* Mutant of withMember: the member is pushed without the filter.
withMemberPushed(ms, member) == Append(ms, member)

\* config.members.filter((m) => m.name !== member.name), then push(member)
withMember(ms, member) ==
  Append(SelectSeq(ms, LAMBDA m : m.name # member.name), member)

\* config.members.filter((m) => m.name !== name)
withoutMember(ms, name) == SelectSeq(ms, LAMBDA m : m.name # name)

\* create(opts): the three mkdir, and the config with the lead as its only
\* member, to be written.
CreateTeam ==
  /\ coord.pc = "idle"
  /\ coord' = [NoCoord EXCEPT !.op = "create", !.pc = "writeConfig",
                              !.config = <<Lead>>, !.membersBefore = members]
  /\ UNCHANGED <<members, gen>>
  /\ UNCHANGED <<file, lock, op, pc, arg, messages, attempts, ret, rcv, clock,
                 poller, history, invoked>>
  /\ UNCHANGED taskStore

\* addMember(member): getConfig() first.
AddMember(member) ==
  /\ coord.pc = "idle"
  /\ coord' = [NoCoord EXCEPT !.op = "addMember", !.pc = "readConfig",
                              !.agent = member.name, !.member = member,
                              !.membersBefore = members]
  /\ UNCHANGED <<members, gen>>
  /\ UNCHANGED <<file, lock, op, pc, arg, messages, attempts, ret, rcv, clock,
                 poller, history, invoked>>
  /\ UNCHANGED taskStore

\* removeMember(name): getConfig() first.
RemoveMember(name) ==
  /\ coord.pc = "idle"
  /\ coord' = [NoCoord EXCEPT !.op = "removeMember", !.pc = "readConfig",
                              !.agent = name, !.membersBefore = members]
  /\ UNCHANGED <<members, gen>>
  /\ UNCHANGED <<file, lock, op, pc, arg, messages, attempts, ret, rcv, clock,
                 poller, history, invoked>>
  /\ UNCHANGED taskStore

\* writeConfig(config)
WriteConfig ==
  /\ coord.pc = "writeConfig"
  /\ members' = coord.config
  /\ UNCHANGED gen
  /\ coord' = [coord EXCEPT !.pc = "return", !.ret = Ok(<<>>)]
  /\ UNCHANGED <<file, lock, op, pc, arg, messages, attempts, ret, rcv, clock,
                 poller, history, invoked>>
  /\ UNCHANGED taskStore

\* ------------------------------------------- Coordinator (spec.md, 4.5)
\* The caller the coordinator's calls of the TaskManager run as, and the
\* one its writeInbox calls run as.
CoordTasks == "t1"
CoordWriter == "c1"

\* The task_assignment message for the task.
AssignmentMessage(taskId, subject) ==
  [from |-> CoordinatorName, text |-> AssignText(taskId, subject),
   summary |-> Undefined, color |-> Undefined]

\* The message send(agent, text, summary) writes.
PlainMessage(text, summary) ==
  [from |-> CoordinatorName, text |-> text, summary |-> summary,
   color |-> Undefined]

\* The members broadcast() sends to.
recipientsOf(config) ==
  LET others == SelectSeq(config, LAMBDA m : m.name # CoordinatorName)
  IN  [i \in 1..Len(others) |-> others[i].name]

\* createTask(fields): the Task Store's create() first.
CreateTask(fields) ==
  /\ coord.pc = "idle"
  /\ create(CoordTasks, fields)
  /\ coord' = [NoCoord EXCEPT
                 !.op = "createTask", !.pc = "tasks",
                 !.agent = IF "owner" \in DOMAIN fields
                             THEN fields.owner ELSE Undefined,
                 !.subject = fields.subject,
                 !.inboxes = file, !.tasksBefore = tasks]
  /\ UNCHANGED <<members, gen>>

\* assignTask(id, agent): the Task Store's update() of the owner first.
AssignTask(taskId, agent) ==
  /\ coord.pc = "idle"
  /\ update(CoordTasks, taskId, [owner |-> agent])
  /\ coord' = [NoCoord EXCEPT
                 !.op = "assignTask", !.pc = "tasks", !.agent = agent,
                 !.taskId = taskId,
                 !.inboxes = file, !.tasksBefore = tasks]
  /\ UNCHANGED <<members, gen>>

\* The Task Store call has finished: its error is the coordinator's; else
\* the notification is due if the task has an owner.
TaskDone ==
  LET r == tcall[CoordTasks].ret
  IN /\ coord.pc = "tasks"
     /\ taskReturns(CoordTasks)
     /\ coord' =
          IF r.status = "error"
            THEN [coord EXCEPT !.pc = "return", !.ret = r]
          ELSE IF coord.op = "assignTask"
            THEN [coord EXCEPT !.pc = "notify", !.subject = r.value.subject]
          ELSE IF coord.agent = Undefined
            THEN [coord EXCEPT !.pc = "return", !.taskId = r.value,
                               !.ret = Ok(r.value)]
            ELSE [coord EXCEPT !.pc = "notify", !.taskId = r.value]
     /\ UNCHANGED <<members, gen>>

\* broadcast(text, summary): the team config is read first.
Broadcast(text, summary) ==
  /\ coord.pc = "idle"
  /\ coord' = [NoCoord EXCEPT
                 !.op = "broadcast", !.pc = "readConfig",
                 !.text = text, !.summary = summary,
                 !.inboxes = file, !.tasksBefore = tasks,
                 !.membersBefore = members]
  /\ UNCHANGED <<members, gen>>
  /\ UNCHANGED <<file, lock, op, pc, arg, messages, attempts, ret, rcv, clock,
                 poller, history, invoked>>
  /\ UNCHANGED taskStore

\* getConfig()'s readFile and JSON.parse, and the caller's code up to its
\* next await.
ReadConfig ==
  /\ coord.pc = "readConfig"
  /\ coord' =
       IF coord.op = "addMember"
         THEN [coord EXCEPT !.pc = "writeConfig",
                            !.config = withMember(members, coord.member)]
       ELSE IF coord.op = "removeMember"
         THEN [coord EXCEPT !.pc = "writeConfig",
                            !.config = withoutMember(members, coord.agent)]
       ELSE IF recipientsOf(members) = <<>>
         THEN [coord EXCEPT !.pc = "return", !.config = members,
                            !.ret = Ok(<<>>)]
         ELSE [coord EXCEPT !.pc = "notify", !.config = members,
                            !.recipients = recipientsOf(members),
                            !.agent = recipientsOf(members)[1]]
  /\ UNCHANGED <<members, gen>>
  /\ UNCHANGED <<file, lock, op, pc, arg, messages, attempts, ret, rcv, clock,
                 poller, history, invoked>>
  /\ UNCHANGED taskStore

\* The coordinator writes to coord.agent's mailbox: the task_assignment of
\* createTask / assignTask, or the text of broadcast's send().
Notify ==
  /\ coord.pc = "notify"
  /\ writeInbox(CoordWriter, coord.agent,
                IF coord.op = "broadcast"
                  THEN PlainMessage(coord.text, coord.summary)
                  ELSE AssignmentMessage(coord.taskId, coord.subject))
  /\ coord' = [coord EXCEPT !.pc = "send"]
  /\ UNCHANGED <<members, gen>>

\* writeInbox has finished: its error is the coordinator's; else broadcast
\* goes on to the next member, and the other calls return.
Sent ==
  LET r == ret[CoordWriter]
  IN /\ coord.pc = "send"
     /\ returns(CoordWriter)
     /\ coord' =
          IF r.status = "error"
            THEN [coord EXCEPT !.pc = "return", !.ret = r]
          ELSE IF coord.op = "broadcast" /\ Len(coord.recipients) > 1
            THEN [coord EXCEPT !.pc = "notify",
                               !.recipients = Tail(coord.recipients),
                               !.agent = coord.recipients[2]]
          ELSE IF coord.op = "createTask"
            THEN [coord EXCEPT !.pc = "return", !.ret = Ok(coord.taskId)]
            ELSE [coord EXCEPT !.pc = "return", !.ret = Ok(<<>>)]
     /\ UNCHANGED <<members, gen>>

\* The coordinator's call returns (or throws); its locals are gone.
CoordReturn ==
  /\ coord.pc = "return"
  /\ coord' = NoCoord
  /\ UNCHANGED <<members, gen>>
  /\ UNCHANGED <<file, lock, op, pc, arg, messages, attempts, ret, rcv, clock,
                 poller, history, invoked>>
  /\ UNCHANGED taskStore

\* ---------------------------------------------------- AgentHandle.events
\* Mutant of deadlineOf: the deadline is Date.now() + timeout also when the
\* timeout is 0.
deadlineOfSum(timeout, now) == [finite |-> TRUE, at |-> now + timeout]

\* deadline = timeout > 0 ? Date.now() + timeout : Infinity
deadlineOf(timeout, now) ==
  IF timeout > 0 THEN [finite |-> TRUE, at |-> now + timeout] ELSE Never

\* Date.now() < deadline
beforeDeadline(now, deadline) == ~deadline.finite \/ now < deadline.at

\* What the mocked controller.receive returns: entries from the agent.
EventMessages ==
  { [from |-> "worker", text |-> "Event msg", timestamp |-> 1, read |-> FALSE],
    [from |-> "worker", text |-> "Line 1", timestamp |-> 2, read |-> FALSE] }

\* The batches a receive returns: none, one or two messages.
EventBatches ==
  {<<>>} \cup {<<m>> : m \in EventMessages}
         \cup {<<m, n>> : m \in EventMessages, n \in EventMessages}

\* The variables events() does not touch.
EventsFrame ==
  /\ UNCHANGED <<file, lock, op, pc, arg, messages, attempts, ret, rcv, clock,
                 poller, history, invoked>>
  /\ UNCHANGED <<taskStore, members, coord>>

\* events(opts) is called and the consumer asks for the first value: the
\* deadline is computed.
CallEvents(timeout) ==
  /\ gen.pc = "none"
  /\ gen' = [NoEvents EXCEPT !.pc = "while", !.timeout = timeout,
                                !.deadline = deadlineOf(timeout, 0)]
  /\ EventsFrame

\* Time passes while the generator is alive.
TimePasses ==
  /\ gen.pc \notin {"none", "done"}
  /\ gen.now < MaxNow
  /\ gen' = [gen EXCEPT !.now = @ + 1]
  /\ EventsFrame

\* while (Date.now() < deadline): controller.receive is called, or the
\* generator ends.
While ==
  /\ gen.pc = "while"
  /\ IF beforeDeadline(gen.now, gen.deadline)
       THEN /\ gen.receives < MaxReceives
            /\ gen' = [gen EXCEPT !.pc = "receive", !.receives = @ + 1]
       ELSE gen' = [gen EXCEPT !.pc = "done", !.ended = "deadline"]
  /\ EventsFrame

\* controller.receive resolves with a batch: the for loop is entered, or is
\* over at once.
ReceiveReturns(batch) ==
  /\ gen.pc = "receive"
  /\ gen' = [gen EXCEPT
                  !.messages = batch, !.received = @ \o batch, !.last = "ok",
                  !.pc = IF batch = <<>> THEN "isRunning" ELSE "yield"]
  /\ EventsFrame

\* controller.receive rejects: catch {} and on to the isRunning test.
ReceiveThrows ==
  /\ gen.pc = "receive"
  /\ gen' = [gen EXCEPT !.last = "error", !.pc = "isRunning"]
  /\ EventsFrame

\* yield msg: the consumer has the next message; the generator is suspended.
Yield ==
  /\ gen.pc = "yield"
  /\ gen' = [gen EXCEPT !.yielded = Append(@, Head(gen.messages)),
                              !.messages = Tail(@), !.pc = "suspended"]
  /\ EventsFrame

\* The consumer asks for the next value: the for loop goes on.
Resume ==
  /\ gen.pc = "suspended"
  /\ gen' = [gen EXCEPT
                  !.pc = IF gen.messages = <<>> THEN "isRunning" ELSE "yield"]
  /\ EventsFrame

\* The consumer leaves its loop (break): the generator is returned from at
\* its yield.
Break ==
  /\ gen.pc = "suspended"
  /\ gen' = [gen EXCEPT !.pc = "done", !.ended = "return"]
  /\ EventsFrame

\* Mutant of stops: the isRunning test is left out.
stopsNever(isRunning) == FALSE

\* if (!this.isRunning) return;
stops(isRunning) == ~isRunning

\* controller.isAgentRunning(name) is asked once the iteration is over.
IsRunning(running) ==
  /\ gen.pc = "isRunning"
  /\ gen' = [gen EXCEPT
                  !.isRunning = running,
                  !.pc = IF stops(running) THEN "done" ELSE "while",
                  !.ended = IF stops(running) THEN "notRunning" ELSE @]
  /\ EventsFrame

\* The generator is done and dropped.
EventsDone ==
  /\ gen.pc = "done"
  /\ gen' = NoEvents
  /\ EventsFrame

\* -------------------------------------------------------- parseMessage
\* A caller applies parseMessage(msg) to an entry of a mailbox; the function
\* is synchronous and touches nothing.
CallParseMessage(p, msg) ==
  /\ Quiet
  /\ pc[p] = "idle"
  /\ op' = [op EXCEPT ![p] = "parseMessage"]
  /\ arg' = [arg EXCEPT ![p] = [NoArg EXCEPT !.message = msg]]
  /\ ret' = [ret EXCEPT ![p] = Ok(parseMessage(msg))]
  /\ pc' = [pc EXCEPT ![p] = "return"]
  /\ UNCHANGED <<file, lock, messages, attempts, rcv, clock, calls, applied,
                 returned, handled, atLock, seen>>
  /\ UNCHANGED <<poller, invoked, taskStore, coordination>>

\* ------------------------------------------------------- specifications
\* The steps of a call under way, whatever the operation.
Run(p) ==
  \/ CreateFile(p)
  \/ LockAcquire(p)
  \/ LockRetry(p)
  \/ LockFail(p)
  \/ ReadFileFails(p)
  \/ ReadFileMalformed(p)
  \/ WriteReadFile(p)
  \/ UnreadReadFile(p)
  \/ WriteFile(p)
  \/ WriteFileFails(p)
  \/ Release(p)
  \/ Return(p)

\* The mailbox store under concurrent callers: two agents write to any
\* mailbox while a third caller reads and marks.
StoreWriters == {"a1", "a2"}
StoreReaders == {"c1"}

Next ==
  \/ \E p \in StoreWriters, m \in StoreMailboxes, message \in StoreMessages :
       CallWrite(p, m, message)
  \/ \E p \in StoreReaders, m \in StoreMailboxes : CallReadUnread(p, m)
  \/ \E p \in Procs : Run(p)

Spec == Init /\ [][Next]_vars

\* The coordinator's inbox as a message bus: an agent writes to it while the
\* interval poller and blocking receive() calls consume it, overlapping.
BusWriters == {"a1"}
BusPollers == {"c1"}
BusReceivers == {"c2"}

NextBus ==
  \/ \E p \in BusWriters, message \in Messages :
       CallWrite(p, ControllerInbox, message)
  \/ \E p \in BusPollers : CallPoll(p)
  \/ \E p \in BusReceivers, agent \in Agents, all \in BOOLEAN :
       CallReceive(p, agent, all)
  \/ \E p \in Procs :
       Deliver(p) \/ Filter(p) \/ Rescan(p) \/ Deadline(p) \/ Run(p)

SpecBus == Init /\ [][NextBus]_vars

\* One call at a time: a call starts only when every earlier one has
\* returned, so no lock attempt ever finds the lock taken.
AllIdle == \A q \in Procs : pc[q] = "idle"

NextSeq ==
  \/ /\ AllIdle
     /\ \E p \in StoreWriters, m \in StoreMailboxes, message \in Messages :
          CallWrite(p, m, message)
  \/ /\ AllIdle
     /\ \E p \in StoreReaders, m \in StoreMailboxes : CallReadUnread(p, m)
  \/ \E p \in Procs :
       \/ CreateFile(p)
       \/ LockAcquire(p)
       \/ ReadFileFails(p)
       \/ ReadFileMalformed(p)
       \/ WriteReadFile(p)
       \/ UnreadReadFile(p)
       \/ WriteFile(p)
       \/ WriteFileFails(p)
       \/ Release(p)
       \/ Return(p)

SpecSeq == Init /\ [][NextSeq]_vars

\* A blocking call on the coordinator's inbox while an agent writes to it.
\* A call under way is resumed by the event loop, so every caller's pending
\* step is eventually taken.
RecvWriters == {"a1"}
RecvCallers == {"c2"}

\* What a call under way does next.
Progress(p) ==
  Filter(p) \/ FilterAny(p) \/ Rescan(p) \/ Deadline(p) \/ Run(p)

NextRecv ==
  \/ \E p \in RecvWriters, message \in Messages :
       CallWrite(p, ControllerInbox, message)
  \/ \E p \in RecvCallers, agent \in Agents, all \in BOOLEAN :
       CallReceive(p, agent, all)
  \/ \E p \in RecvCallers : CallReceiveAny(p)
  \/ \E p \in Procs : Progress(p)

SpecRecv ==
  Init /\ [][NextRecv]_vars /\ \A p \in Procs : WF_vars(Progress(p))

\* The poller as the coordinator runs it: handlers are registered, the
\* interval is started and stopped, every tick of a set interval starts a
\* poll, and agents write to the inbox.
PollWriters == {"a1"}
PollCallers == {"c1"}

NextPoll ==
  \/ clock = 0 /\ AllIdle /\ \E h \in Handlers : OnMessages(h)
  \/ Start
  \/ Stop
  \/ \E p \in PollWriters, message \in PollMessages :
       CallWrite(p, ControllerInbox, message)
  \/ \E p \in PollCallers : Tick(p)
  \/ \E p \in Procs : Deliver(p) \/ Run(p)

SpecPoll == Init /\ [][NextPoll]_vars

\* The task store used by the coordinator, one call at a time.
NextTasks ==
  \/ \E c \in GraphCallers, fields \in CreateFields : CallCreate(c, fields)
  \/ \E c \in GraphCallers, taskId \in TaskIds, updates \in Updates :
       CallUpdate(c, taskId, updates)
  \/ \E c \in GraphCallers, taskId \in TaskIds, blockedTaskIds \in IdLists(MaxBlocked) :
       CallAddBlocks(c, taskId, blockedTaskIds)
  \/ \E c \in GraphCallers, taskId \in TaskIds : CallDelete(c, taskId)
  \/ \E c \in GraphCallers, taskId \in TaskIds : CallGet(c, taskId)
  \/ \E c \in GraphCallers : ReadTask(c)
  \/ \E c \in GraphCallers : WriteTask(c)
  \/ \E c \in GraphCallers : Rm(c)
  \/ \E c \in GraphCallers : TaskReturn(c)

SpecTasks == Init /\ [][NextTasks]_vars

\* The id counter: the coordinator creates, deletes and lists tasks and
\* calls init(), one call at a time, and its process may be restarted.
NextIds ==
  \/ \E c \in GraphCallers : CallCreate(c, [subject |-> "Test task"])
  \/ \E c \in GraphCallers, taskId \in TaskIds : CallDelete(c, taskId)
  \/ \E c \in GraphCallers : CallInit(c)
  \/ \E c \in GraphCallers : CallList(c)
  \/ Restart
  \/ \E c \in GraphCallers : Mkdir(c)
  \/ \E c \in GraphCallers : Readdir(c)
  \/ \E c \in GraphCallers : ReadListed(c)
  \/ \E c \in GraphCallers : WriteTask(c)
  \/ \E c \in GraphCallers : Rm(c)
  \/ \E c \in GraphCallers : TaskReturn(c)

SpecIds == Init /\ [][NextIds]_vars

\* waitFor: the coordinator waits for a task to be completed while its other
\* calls create, complete and delete tasks.
NextWait ==
  \/ \E c \in GraphCallers : CallCreate(c, [subject |-> "Test task"])
  \/ \E c \in GraphCallers, taskId \in TaskIds :
       CallUpdate(c, taskId, [status |-> "completed"])
  \/ \E c \in GraphCallers, taskId \in TaskIds : CallDelete(c, taskId)
  \/ \E c \in TaskWaiters, taskId \in TaskIds :
       CallWaitFor(c, taskId, "completed")
  \/ \E c \in TaskWaiters : WaitAgain(c)
  \/ \E c \in TaskWaiters : WaitDeadline(c)
  \/ \E c \in TaskCallers : ReadTask(c)
  \/ \E c \in TaskCallers : WriteTask(c)
  \/ \E c \in TaskCallers : Rm(c)
  \/ \E c \in TaskCallers : TaskReturn(c)

SpecWait == Init /\ [][NextWait]_vars

\* What createTask is called with: a subject, and an owner or none.
CoordFields ==
  {[subject |-> sub] : sub \in Subjects}
    \cup {[subject |-> sub, owner |-> w] : sub \in Subjects, w \in Workers}

BroadcastText == "Everyone listen up"

\* The coordinator's calls, one at a time, on a team whose members come and
\* go between them.
NextCoord ==
  \/ \E fields \in CoordFields : CreateTask(fields)
  \/ \E taskId \in TaskIds, agent \in Workers : AssignTask(taskId, agent)
  \/ \E summary \in {"announcement", Undefined} : Broadcast(BroadcastText, summary)
  \/ \E name \in Workers : AddMember(Member(name))
  \/ \E name \in Workers : RemoveMember(name)
  \/ ReadConfig
  \/ WriteConfig
  \/ TaskDone
  \/ Notify
  \/ Sent
  \/ CoordReturn
  \/ ReadTask(CoordTasks)
  \/ WriteTask(CoordTasks)
  \/ CreateFile(CoordWriter)
  \/ LockAcquire(CoordWriter)
  \/ ReadFileFails(CoordWriter)
  \/ WriteReadFile(CoordWriter)
  \/ WriteFile(CoordWriter)
  \/ WriteFileFails(CoordWriter)
  \/ Release(CoordWriter)

SpecCoord == Init /\ [][NextCoord]_vars

\* The payloads parseMessage is applied to: those of the protocol, and
\* every kind of text that is not a typed object.
Payloads ==
  {IdleText, ShutdownText, PlanText, PermText, ResponseText, ContentText,
   EmptyText, InvalidText, NumberText, ZeroText, StringText, TrueText,
   FalseText, NullText, ArrayText, EmptyArrayText, UntypedText,
   EmptyObjectText, UnknownText, NullTypeText, AssignText("1", "Test task")}

\* The mailbox entries that carry them.
ParseEntries ==
  [from : {"worker1", "controller"}, text : Payloads, timestamp : 1..2,
   summary : {Undefined}, color : {Undefined}, read : BOOLEAN]

ParseCallers == {"a1"}

NextParse ==
  \/ \E p \in ParseCallers, msg \in ParseEntries : CallParseMessage(p, msg)
  \/ \E p \in ParseCallers : Return(p)

SpecParse == Init /\ [][NextParse]_vars

\* The records addMember is called with: any name of the team, the lead's
\* included, with one of two agent types.
TeamMembers ==
  [name : {CoordinatorName} \cup Workers, agentType : {"general-purpose", "Bash"}]

\* The TeamManager's calls, one at a time.
NextTeam ==
  \/ CreateTeam
  \/ \E member \in TeamMembers : AddMember(member)
  \/ \E name \in {CoordinatorName} \cup Workers : RemoveMember(name)
  \/ ReadConfig
  \/ WriteConfig
  \/ CoordReturn

SpecTeam == Init /\ [][NextTeam]_vars

\* The mailbox store over files that may be absent, malformed or of zero
\* bytes: two agents write while a third caller reads, with and without
\* marking.
FileWriters == {"a1", "a2"}
FileReaders == {"c1"}

NextFiles ==
  \/ \E p \in FileWriters, m \in StoreMailboxes, message \in StoreMessages :
       CallWrite(p, m, message)
  \/ \E p \in FileReaders, m \in StoreMailboxes : CallReadUnread(p, m)
  \/ \E p \in FileReaders, m \in StoreMailboxes : CallReadInbox(p, m)
  \/ \E p \in Procs : ReadInboxFile(p)
  \/ \E p \in Procs : Run(p)

SpecFiles == InitFiles /\ [][NextFiles]_vars

\* The coordinator's inbox with every consumer it has: worker1 and worker2
\* write to it while the interval poller runs and a caller makes receive()
\* and receiveAny() calls, one after the other.
ConsumeWriters == {"a1"}
ConsumePollers == {"c1"}
ConsumeCallers == {"c2"}

NextConsume ==
  \/ \E p \in ConsumeWriters, message \in StoreMessages :
       CallWrite(p, ControllerInbox, message)
  \/ \E p \in ConsumePollers : CallPoll(p)
  \/ \E p \in ConsumeCallers, agent \in Agents, all \in BOOLEAN :
       CallReceive(p, agent, all)
  \/ \E p \in ConsumeCallers : CallReceiveAny(p)
  \/ \E p \in Procs : Deliver(p) \/ Progress(p)

SpecConsume == Init /\ [][NextConsume]_vars

\* The timeouts events() is called with: none (0, the default) and one the
\* clock can reach.
Timeouts == {0, 2}

\* One events() generator at a time, over a controller whose receive
\* returns any batch or throws and whose agent may stop at any time.
NextEvents ==
  \/ \E timeout \in Timeouts : CallEvents(timeout)
  \/ TimePasses
  \/ While
  \/ \E batch \in EventBatches : ReceiveReturns(batch)
  \/ ReceiveThrows
  \/ Yield
  \/ Resume
  \/ Break
  \/ \E running \in BOOLEAN : IsRunning(running)
  \/ EventsDone

SpecEvents == Init /\ [][NextEvents]_vars

\* ------------------------------------------------------------ properties
\* A caller is inside the locked block of writeInbox / readUnread.
InSection(p) == pc[p] \in {"readFile", "writeFile", "release"}

\* The entry a write of `message` is to store.
Stored(message) ==
  [from |-> message.from, text |-> message.text, timestamp |-> message.timestamp,
   summary |-> message.summary, color |-> message.color, read |-> FALSE]

NothingReturned == \A t \in Stamps : returned[t] = 0

LocksFree == \A l \in LockPaths : lock[l] = NoProc

\* C1: when several writes to one mailbox run concurrently, the file
\* possibly not existing yet, no entry is lost: once all N calls have
\* completed successfully, readInbox returns exactly N entries, one per write.
C1_NoWriteLost ==
  \A m \in Mailboxes :
    (AllIdle /\ calls[m] >= 1 /\ Len(applied[m]) = calls[m])
      => /\ readInbox(m).status = "ok"
         /\ Len(readInbox(m).value) = calls[m]
         /\ Stamp(readInbox(m).value) = Stamp(applied[m])

\* C2: after any sequence of writes, one call at a time, with no readUnread
\* having returned an entry, readInbox returns exactly the written entries in
\* the order of the writes, each with read = false and with from, text,
\* timestamp, summary and color as written.
C2_SequentialWritesReadBack ==
  \A m \in Mailboxes :
    (AllIdle /\ NothingReturned /\ file[m].state # "malformed")
      => readInbox(m) =
           Ok([i \in 1..Len(applied[m]) |-> Stored(applied[m][i])])

C2_Witness ==
  /\ AllIdle
  /\ NothingReturned
  /\ \E m \in Mailboxes :
       /\ Len(applied[m]) = 2
       /\ applied[m][1].summary # Undefined
       /\ applied[m][2].summary = Undefined
       /\ file[m].state = "json"

\* C3: readUnread returns exactly the entries that were unread when the call
\* took the lock, in mailbox order, and when it is done every stored entry
\* has read = true.
C3_ReturnsUnreadAtLock ==
  \A p \in Procs :
    (op[p] = "readUnread" /\ pc[p] = "release" /\ ret[p].status = "ok")
      => /\ ret[p].value = atLock[p]
         /\ \A i \in 1..Len(file[arg[p].mailbox].msgs) :
              file[arg[p].mailbox].msgs[i].read

C5_AppendOnly ==
  [][\A m \in Mailboxes :
       file[m].state = "json"
         => /\ file'[m].state = "json"
            /\ Len(file'[m].msgs) >= Len(file[m].msgs)
            /\ \A i \in 1..Len(file[m].msgs) :
                 /\ [file'[m].msgs[i] EXCEPT !.read = FALSE]
                      = [file[m].msgs[i] EXCEPT !.read = FALSE]
                 /\ file[m].msgs[i].read => file'[m].msgs[i].read]_vars

\* C6: per mailbox at most one writeInbox / readUnread is inside its
\* read-modify-write section, and a lock attempt fails only while another
\* call holds the lock of the same mailbox, never because of another
\* mailbox's lock.
C6_MutexPerMailbox ==
  /\ [](\A p, q \in Procs :
          (p # q /\ InSection(p) /\ InSection(q))
            => arg[p].mailbox # arg[q].mailbox)
  /\ [][\A p \in Procs :
          (pc[p] = "lock" /\ (attempts'[p] > attempts[p] \/ ret'[p] = Err("ELOCKED")))
            => \E q \in Procs \ {p} :
                 InSection(q) /\ arg[q].mailbox = arg[p].mailbox]_vars

C6_Witness ==
  \E p, q, r \in Procs :
    /\ InSection(p) /\ InSection(q)
    /\ arg[p].mailbox # arg[q].mailbox
    /\ pc[r] = "lock" /\ attempts[r] > 0

\* C7: a lock is held only by a call that is still inside its locked block:
\* once writeInbox / readUnread has completed, by returning, by the early
\* return with nothing unread, or by throwing on malformed JSON or a failed
\* read or write, it holds no lock.
C7_LockReleased ==
  \A l \in LockPaths :
    lock[l] # NoProc
      => InSection(lock[l]) /\ lockTarget(arg[lock[l]].mailbox) = l

C7_Witness ==
  /\ LocksFree
  /\ \E p \in Procs :
       /\ pc[p] = "return"
       /\ ret[p].status = "error"
       /\ ret[p].error \in {"SyntaxError", "EIO"}

\* C8: a call leaves its wait for the lock without the lock only when the
\* first attempt and all 5 retries have failed; it then fails with the lock
\* error, the mailbox files are as they were and the holder still holds the
\* lock.
C8_LockTimeout ==
  [][\A p \in Procs :
       (pc[p] = "lock" /\ pc'[p] \notin {"lock", "readFile"})
         => /\ attempts[p] = 5
            /\ ret'[p] = Err("ELOCKED")
            /\ file' = file
            /\ lock' = lock
            /\ lock[lockTarget(arg[p].mailbox)] \notin {NoProc, p}]_vars

C8_Witness ==
  \E p \in Procs :
    /\ pc[p] = "return"
    /\ op[p] = "write"
    /\ ret[p] = Err("ELOCKED")
    /\ lock[lockTarget(arg[p].mailbox)] \notin {NoProc, p}
    /\ \A i \in 1..Len(file[arg[p].mailbox].msgs) :
         file[arg[p].mailbox].msgs[i].timestamp # arg[p].message.timestamp

\* The texts whose classification is signal-only.
SignalTexts == {IdleText, ShutdownText}

RECURSIVE ContentFrom(_, _)
ContentFrom(ms, agent) ==
  IF ms = <<>> THEN <<>>
  ELSE IF Head(ms).from = agent /\ Head(ms).text \notin SignalTexts
         THEN <<Head(ms)>> \o ContentFrom(Tail(ms), agent)
         ELSE ContentFrom(Tail(ms), agent)

RECURSIVE IdleFrom(_, _)
IdleFrom(ms, agent) ==
  IF ms = <<>> THEN <<>>
  ELSE IF Head(ms).from = agent /\ Head(ms).text = IdleText
         THEN <<Head(ms)>> \o IdleFrom(Tail(ms), agent)
         ELSE IdleFrom(Tail(ms), agent)

\* A scan of receive(agent) has found content from the agent.
ScanFoundContent(p) ==
  /\ op[p] = "receive"
  /\ pc[p] = "filter"
  /\ ret[p].status = "ok"
  /\ ContentFrom(ret[p].value, arg[p].agent) # <<>>

\* C9 as stated: whenever a scan of receive(agent) finds content from the
\* agent, receive returns at once with exactly the content messages from the
\* agent found in that scan, in mailbox order.
C9_ContentEndsReceive ==
  [][\A p \in Procs :
       (ScanFoundContent(p) /\ pc'[p] # "filter")
         => /\ pc'[p] = "return"
            /\ ret'[p] = Ok(ContentFrom(ret[p].value, arg[p].agent))]_vars

\* C9, amended: whenever a scan of receive(agent), the `all` option not set,
\* finds content from the agent, receive returns at once with exactly the
\* content messages from the agent found in that scan, in mailbox order: no
\* entry of another sender and no signal-only entry.
C9_ContentEndsReceiveUnlessAll ==
  [][\A p \in Procs :
       (ScanFoundContent(p) /\ ~arg[p].all /\ pc'[p] # "filter")
         => /\ pc'[p] = "return"
            /\ ret'[p] = Ok(ContentFrom(ret[p].value, arg[p].agent))]_vars

C9_Witness ==
  \E p \in Procs :
    /\ op[p] = "receive" /\ pc[p] = "return" /\ ~arg[p].all
    /\ Len(seen[p]) = 2
    /\ seen[p][1].text = ShutdownText
    /\ ret[p].status = "ok"
    /\ Len(ret[p].value) = 1
    /\ ret[p].value[1].text = ContentText

Blocking(p) == op[p] \in {"receive", "receiveAny"}

Elems(ms) == {ms[i] : i \in 1..Len(ms)}

\* The errors of the mailbox store.
StoreErrors == {"ELOCKED", "EIO", "SyntaxError"}

\* SATISFIED: a non-empty result of content messages the scans returned.
Satisfied(p) ==
  /\ ret[p].status = "ok"
  /\ ret[p].value # <<>>
  /\ Elems(ret[p].value) \subseteq Elems(seen[p])
  /\ IF op[p] = "receive"
       THEN \A m \in Elems(ret[p].value) :
              m.from = arg[p].agent /\ m.text \notin SignalTexts
       ELSE Len(ret[p].value) = 1 /\ ret[p].value[1].text # IdleText

\* SATISFIED_FALLBACK: receive() only, no content seen, one observed signal.
SatisfiedFallback(p) ==
  /\ op[p] = "receive"
  /\ ret[p].status = "ok"
  /\ Len(ret[p].value) = 1
  /\ ret[p].value[1] \in Elems(IdleFrom(seen[p], arg[p].agent))
  /\ ContentFrom(seen[p], arg[p].agent) = <<>>

\* FAILED: Timeout, nothing that qualifies observed.
FailedTimeout(p) ==
  /\ ret[p] = Err("Timeout")
  /\ IF op[p] = "receive"
       THEN /\ ContentFrom(seen[p], arg[p].agent) = <<>>
            /\ IdleFrom(seen[p], arg[p].agent) = <<>>
       ELSE \A m \in Elems(seen[p]) : m.text = IdleText

\* A scan failed with an error of the mailbox store, which the call rethrows.
FailedStore(p) == ret[p].status = "error" /\ ret[p].error \in StoreErrors

AllModeDeadline(p) ==
  /\ op[p] = "receive" /\ arg[p].all
  /\ pc[p] = "sleep" /\ pc'[p] = "return"

\* receive(agent, {all: true}) does not return at a scan that finds content.
AllModeKeepsScanning ==
  \A p \in Procs :
    (ScanFoundContent(p) /\ arg[p].all /\ pc'[p] # "filter")
      => pc'[p] = "sleep" /\ ret'[p].status # "ok"

\* At the deadline it returns the content messages from the agent that its
\* scans returned, each once, in the order they arrived.
AllModeReturnsAccumulated ==
  \A p \in Procs :
    (AllModeDeadline(p) /\ ContentFrom(seen[p], arg[p].agent) # <<>>)
      => /\ ret'[p] = Ok(ContentFrom(seen[p], arg[p].agent))
         /\ Cardinality(Stamp(ret'[p].value)) = Len(ret'[p].value)
         /\ \A i, j \in 1..Len(ret'[p].value) :
              i < j => ret'[p].value[i].timestamp < ret'[p].value[j].timestamp

AnyScan(p) ==
  /\ op[p] = "receiveAny"
  /\ pc[p] = "filterAny" /\ pc'[p] # "filterAny"
  /\ ret[p].status = "ok"

\* The first entry of a scan that is no idle notification, if there is one.
RECURSIVE FirstNotIdle(_)
FirstNotIdle(ms) ==
  IF ms = <<>> THEN <<>>
  ELSE IF Head(ms).text # IdleText THEN <<Head(ms)>>
       ELSE FirstNotIdle(Tail(ms))

\* C14: receiveAny never returns an idle notification, as a result or as a
\* fallback: a scan holding a message that is not an idle notification ends
\* the call with the first such message in mailbox order, whoever sent it;
\* a scan of idle notifications only (or of nothing) is followed by a sleep,
\* and at the deadline the call fails with Timeout.
C14_ReceiveAnySkipsIdle ==
  /\ [](\A p \in Procs :
          (op[p] = "receiveAny" /\ pc[p] = "return" /\ ret[p].status = "ok")
            => Len(ret[p].value) = 1 /\ ret[p].value[1].text # IdleText)
  /\ [][\A p \in Procs :
          /\ AnyScan(p) =>
               IF FirstNotIdle(ret[p].value) # <<>>
                 THEN pc'[p] = "return" /\ ret'[p] = Ok(FirstNotIdle(ret[p].value))
                 ELSE pc'[p] = "sleep" /\ ret'[p].status # "ok"
          /\ (op[p] = "receiveAny" /\ pc[p] = "sleep" /\ pc'[p] = "return")
               => ret'[p] = Err("Timeout")]_vars

C14_Witness ==
  \E p \in Procs :
    /\ op[p] = "receiveAny" /\ pc[p] = "return"
    /\ Len(seen[p]) = 2
    /\ seen[p][1].text = IdleText
    /\ seen[p][2].from = "worker2"
    /\ ret[p] = Ok(<<seen[p][2]>>)

\* The event each payload is to be routed to.
ExpectedEvent(text) ==
  CASE text = IdleText -> "idle"
    [] text = ShutdownText -> "shutdown:approved"
    [] text = PlanText -> "plan:approval_request"
    [] text = PermText -> "permission:request"
    [] OTHER -> "message"

\* C15: for every entry of every poll batch the coordinator's wiring emits
\* exactly one event, chosen by the entry's classified type (idle,
\* shutdown:approved, plan:approval_request, permission:request, and message
\* for anything else), carrying the entry's sender as agent name.
C15_OneEventPerEntry ==
  \A p \in Procs : \A k \in 1..Len(invoked[p]) :
    invoked[p][k].handler = "wiring"
      => LET batch == invoked[p][k].batch
             emitted == invoked[p][k].emitted
         IN  /\ Len(emitted) = Len(batch)
             /\ \A i \in 1..Len(batch) :
                  /\ emitted[i].name = ExpectedEvent(batch[i].raw.text)
                  /\ emitted[i].agent = batch[i].raw.from

C15_Witness ==
  \E p \in Procs : \E k \in 1..Len(invoked[p]) :
    /\ invoked[p][k].handler = "wiring"
    /\ Len(invoked[p][k].batch) = 2
    /\ invoked[p][k].emitted[1].name = "plan:approval_request"
    /\ invoked[p][k].emitted[1].agent = "coder"
    /\ invoked[p][k].emitted[2].name = "message"
    /\ invoked[p][k].batch[2].raw.text = ResponseText

\* The classification each payload is to get.
ExpectedType(text) ==
  CASE text = IdleText -> "idle_notification"
    [] text = ShutdownText -> "shutdown_approved"
    [] text = PlanText -> "plan_approval_request"
    [] text = PermText -> "permission_request"
    [] text = ResponseText -> "permission_response"
    [] OTHER -> "plain_text"

\* `events` is `unread` entry by entry, each paired with its classification.
IsBatchOf(events, unread) ==
  /\ Len(events) = Len(unread)
  /\ \A i \in 1..Len(unread) :
       /\ events[i].raw = unread[i]
       /\ events[i].parsed.type = ExpectedType(unread[i].text)

\* poll() has readUnread's outcome and runs on.
PollGoesOn(p) == op[p] = "poll" /\ pc[p] = "deliver" /\ pc'[p] # "deliver"

\* C16: when readUnread gives poll() at least one unread entry, poll invokes
\* every registered handler exactly once, in registration order, with the
\* whole batch, each entry paired with its classification, in mailbox order,
\* and returns that batch; otherwise it invokes no handler and returns an
\* empty batch, and a poll that finds nothing unread, or no mailbox file,
\* writes nothing.
C16_PollDeliversBatch ==
  [][\A p \in Procs :
       /\ PollGoesOn(p) =>
            IF ret[p].status = "ok" /\ ret[p].value # <<>>
              THEN /\ Len(invoked'[p]) = Len(handlers)
                   /\ \A k \in 1..Len(handlers) :
                        /\ invoked'[p][k].handler = handlers[k]
                        /\ IsBatchOf(invoked'[p][k].batch, ret[p].value)
                   /\ ret'[p].status = "ok"
                   /\ IsBatchOf(ret'[p].value, ret[p].value)
              ELSE /\ invoked'[p] = <<>>
                   /\ ret'[p] = Ok(<<>>)
       /\ ( /\ op[p] = "poll" /\ pc[p] = "readFile" /\ pc'[p] # "readFile"
            /\ file[ControllerInbox].state = "json"
            /\ SelectUnread(file[ControllerInbox].msgs) = <<>>
            /\ ret'[p].status = "ok" )
            => pc'[p] = "release" /\ ret'[p] = Ok(<<>>) /\ file' = file
       /\ (pc[p] = "idle" /\ op'[p] = "poll" /\ file[ControllerInbox].state = "absent")
            => pc'[p] = "deliver" /\ ret'[p] = Ok(<<>>) /\ file' = file]_vars

C16_Witness ==
  \E p \in Procs :
    /\ op[p] = "poll" /\ pc[p] = "return"
    /\ Len(handlers) = 2
    /\ Len(invoked[p]) = 2
    /\ Len(ret[p].value) = 2
    /\ invoked[p][2].batch = ret[p].value
    /\ ret[p].value[1].raw.timestamp < ret[p].value[2].raw.timestamp

\* C17: when a handler throws on a poll batch, every handler registered
\* after it is still invoked with the same batch and poll() returns the
\* batch without throwing; this holds of every poll, so also of the polls
\* that follow one in which a handler threw.
C17_HandlerIsolation ==
  \A p \in Procs :
    (op[p] = "poll" /\ pc[p] = "return")
      => \A k \in 1..Len(invoked[p]) :
           invoked[p][k].threw
             => /\ Len(invoked[p]) = Len(handlers)
                /\ \A j \in (k + 1)..Len(handlers) :
                     /\ invoked[p][j].handler = handlers[j]
                     /\ invoked[p][j].batch = invoked[p][k].batch
                /\ ret[p] = Ok(invoked[p][k].batch)
                /\ ret[p].value # <<>>

C17_Witness ==
  \E p \in Procs :
    /\ op[p] = "poll" /\ pc[p] = "return"
    /\ handlers = <<"exploding", "wiring">>
    /\ handled[1] = 1
    /\ Len(invoked[p]) = 2
    /\ invoked[p][1].threw
    /\ invoked[p][2].handler = "wiring"
    /\ Len(invoked[p][2].emitted) = 1
    /\ invoked[p][2].batch[1].raw.timestamp = 2

\* C18: after any sequence of start() and stop() calls at most one polling
\* timer is active, and it is the one the poller holds: start() while
\* running sets no second interval, stop() while stopped changes nothing,
\* and after a stop() no interval is left however many start() calls
\* preceded it.
C18_AtMostOneTimer ==
  /\ [](/\ Cardinality(timers) <= 1
        /\ timers = (IF timer = NoTimer THEN {} ELSE {timer}))
  /\ [][/\ (timer # NoTimer /\ <<timer, timers>>' # <<timer, timers>>)
             => (timer' = NoTimer /\ timers' = {})
        /\ (timer = NoTimer /\ <<timer, timers>>' # <<timer, timers>>)
             => (timer' \in TimerIds /\ timers' = {timer'})]_vars

C18_Witness ==
  /\ timer = NoTimer
  /\ timers = {}
  /\ \E p \in PollCallers : op[p] = "poll" /\ pc[p] \notin {"idle", "return"}

\* No call of the TaskManager is under way.
TasksAtRest == \A c \in TaskCallers : tcall[c].pc = "idle"

\* C19: between the operations of the Task Store (create, update, addBlocks,
\* delete), whenever task A lists B in blocks, task B exists and lists A in
\* blockedBy.
C19_BlocksSymmetric ==
  TasksAtRest
    => \A a, b \in TaskIds :
         (taskExists(tasks, a) /\ includes(tasks[a].blocks, b))
           => (taskExists(tasks, b) /\ includes(tasks[b].blockedBy, a))

\* An addBlocks(A, ids) that succeeded, all of A and ids existing at the call.
AddBlocksSucceeded(c) ==
  /\ tcall[c].op = "addBlocks"
  /\ tcall[c].pc = "return"
  /\ tcall[c].ret.status = "ok"
  /\ taskExists(tasksAtCall[c], tcall[c].taskId)
  /\ \A i \in 1..Len(tcall[c].blockedTaskIds) :
       taskExists(tasksAtCall[c], tcall[c].blockedTaskIds[i])

\* Every id of the array `old` is in the array `new`.
Keeps(old, new) == \A i \in 1..Len(old) : includes(new, old[i])

\* C20: after addBlocks(A, ids) succeeds with all tasks existing, every B of
\* ids is in A.blocks and has A in its blockedBy, the ids that were in
\* A.blocks and in B.blockedBy are still there, and nothing else has changed:
\* no other field of A or B, and no other task.
C20_AddBlocksPost ==
  \A c \in TaskCallers :
    AddBlocksSucceeded(c)
      => LET A == tcall[c].taskId
             ids == {tcall[c].blockedTaskIds[i] :
                       i \in 1..Len(tcall[c].blockedTaskIds)}
             old == tasksAtCall[c]
         IN /\ \A B \in ids :
                 /\ includes(tasks[A].blocks, B)
                 /\ includes(tasks[B].blockedBy, A)
                 /\ Keeps(old[B].blockedBy, tasks[B].blockedBy)
            /\ Keeps(old[A].blocks, tasks[A].blocks)
            /\ \A t \in TaskIds :
                 /\ tasks[t].id = old[t].id
                 /\ tasks[t].subject = old[t].subject
                 /\ tasks[t].status = old[t].status
                 /\ t # A => tasks[t].blocks = old[t].blocks
                 /\ t \notin ids => tasks[t].blockedBy = old[t].blockedBy

\* An addBlocks(A, [B]) that has finished, whether it returned or threw.
AddBlocksFinished(c) ==
  /\ tcall[c].op = "addBlocks"
  /\ tcall[c].pc = "return"
  /\ Len(tcall[c].blockedTaskIds) = 1

\* C21: addBlocks(A, [B]) is atomic for its caller: when the call has
\* finished, by returning or by throwing, either B is in A.blocks and A is in
\* B.blockedBy, or neither task file has changed; and A never lists B in
\* blocks without B listing A in blockedBy.
C21_AddBlocksAtomic ==
  \A c \in TaskCallers :
    AddBlocksFinished(c)
      => LET A == tcall[c].taskId
             B == tcall[c].blockedTaskIds[1]
             old == tasksAtCall[c]
             linked == /\ taskExists(tasks, A) /\ includes(tasks[A].blocks, B)
                       /\ taskExists(tasks, B) /\ includes(tasks[B].blockedBy, A)
         IN /\ linked \/ (tasks[A] = old[A] /\ tasks[B] = old[B])
            /\ (taskExists(tasks, A) /\ includes(tasks[A].blocks, B)) => linked

\* No id occurs twice in the array.
NoDuplicates(array) ==
  \A i, j \in 1..Len(array) : array[i] = array[j] => i = j

\* C22: adding the same block twice is idempotent: no task's blocks or
\* blockedBy list ever holds an id twice, also after one addBlocks call whose
\* id list names an id more than once, and an addBlocks(A, [B]) made when A
\* already blocks B and B is already blocked by A leaves every task file as
\* it was.
C22_AddBlocksIdempotent ==
  /\ \A t \in TaskIds :
       NoDuplicates(tasks[t].blocks) /\ NoDuplicates(tasks[t].blockedBy)
  /\ \A c \in TaskCallers :
       (/\ AddBlocksFinished(c)
        /\ taskExists(tasksAtCall[c], tcall[c].taskId)
        /\ taskExists(tasksAtCall[c], tcall[c].blockedTaskIds[1])
        /\ includes(tasksAtCall[c][tcall[c].taskId].blocks,
                    tcall[c].blockedTaskIds[1])
        /\ includes(tasksAtCall[c][tcall[c].blockedTaskIds[1]].blockedBy,
                    tcall[c].taskId))
         => (tcall[c].ret.status = "ok" /\ tasks = tasksAtCall[c])

\* The ids of the task files in the directory ts.
Persisted(ts) == {id \in TaskIds : taskExists(ts, id)}

\* A create() that has returned its id.
CreateReturned(c) ==
  /\ tcall[c].op = "create"
  /\ tcall[c].pc = "return"
  /\ tcall[c].ret.status = "ok"

\* C23: task ids increase from "1": on a TaskManager that has been
\* initialised, with tasks 1..n persisted (n = 0 on an empty team) and no
\* task ever deleted, create returns n+1, greater than every id returned
\* before; this holds after init() is called again and on a fresh
\* TaskManager made on the same directory.
C23_IdsIncrease ==
  \A c \in TaskCallers :
    (/\ CreateReturned(c)
     /\ initialised
     /\ ~deleted
     /\ Persisted(tasksAtCall[c]) =
          {String(i) : i \in 1..Cardinality(Persisted(tasksAtCall[c]))})
      => /\ tcall[c].ret.value = String(Cardinality(Persisted(tasksAtCall[c])) + 1)
         /\ \A e \in created : parseInt(e) < parseInt(tcall[c].ret.value)

C23_Witness ==
  \E c \in TaskCallers :
    /\ CreateReturned(c)
    /\ initialised
    /\ ~deleted
    /\ created = {}
    /\ Persisted(tasksAtCall[c]) = {"1"}
    /\ tcall[c].ret.value = "2"

\* C24: within one process lifetime create never returns an id that an
\* earlier create returned, whatever create, delete and init calls were made.
C24_NoIdReuse ==
  \A c \in TaskCallers :
    CreateReturned(c) => tcall[c].ret.value \notin created

\* An init() that has returned.
InitReturned(c) ==
  /\ tcall[c].op = "init"
  /\ tcall[c].pc = "return"
  /\ tcall[c].ret.status = "ok"

\* C25: after every init() the counter is the highest persisted task id
\* plus one, and 1 when the task directory is empty.
C25_InitRecomputes ==
  \A c \in TaskCallers :
    InitReturned(c)
      => nextId = IF Persisted(tasks) = {} THEN 1
                  ELSE 1 + CHOOSE m \in {parseInt(id) : id \in Persisted(tasks)} :
                             \A id \in Persisted(tasks) : parseInt(id) <= m

\* A call of the operation o that has finished, by returning or throwing.
Finished(c, o) == tcall[c].op = o /\ tcall[c].pc = "return"

\* C26: update(id, partial) on an existing task sets exactly the fields of
\* partial, keeps the task's id and every other field, leaves every other
\* task file as it was and returns the merged task, which is what the file
\* now holds and so what a following get(id) returns; on an id with no task
\* it fails with NotFound and no file is created or changed.
C26_UpdateFrame ==
  \A c \in TaskCallers :
    /\ Finished(c, "update")
         => LET id == tcall[c].taskId
                partial == tcall[c].updates
                old == tasksAtCall[c]
            IN IF taskExists(old, id)
                 THEN /\ tcall[c].ret.status = "ok"
                      /\ \A f \in DOMAIN partial : tasks[id][f] = partial[f]
                      /\ \A f \in DOMAIN old[id] \ DOMAIN partial :
                           tasks[id][f] = old[id][f]
                      /\ \A t \in TaskIds \ {id} : tasks[t] = old[t]
                      /\ tcall[c].ret.value = tasks[id]
                 ELSE /\ tcall[c].ret = Err("NotFound")
                      /\ tasks = old
    /\ (Finished(c, "get") /\ tcall[c].ret.status = "ok")
         => tcall[c].ret.value = tasks[tcall[c].taskId]

C26_Witness ==
  \E c \in TaskCallers :
    /\ Finished(c, "update")
    /\ tcall[c].updates = [status |-> "completed"]
    /\ tasksAtCall[c][tcall[c].taskId].status = "in_progress"
    /\ tasksAtCall[c][tcall[c].taskId].blocks # <<>>
    /\ tcall[c].ret.status = "ok"
    /\ tcall[c].ret.value.status = "completed"
    /\ tcall[c].ret.value.blocks = tasksAtCall[c][tcall[c].taskId].blocks

\* C27: delete(id) removes the task file, so that a get(id) made next fails
\* with NotFound; on an id with no task file it does nothing and raises no
\* error; in both cases every other task file, its blocks and blockedBy
\* included, is as it was; and get on an id with no task file fails with
\* NotFound.
C27_DeleteAndGet ==
  \A c \in TaskCallers :
    /\ Finished(c, "delete")
         => /\ tcall[c].ret.status = "ok"
            /\ ~taskExists(tasks, tcall[c].taskId)
            /\ \A t \in TaskIds \ {tcall[c].taskId} : tasks[t] = tasksAtCall[c][t]
    /\ Finished(c, "get")
         => IF taskExists(tasksAtCall[c], tcall[c].taskId)
              THEN tcall[c].ret.status = "ok"
              ELSE tcall[c].ret = Err("NotFound") /\ tasks = tasksAtCall[c]

C27_Witness ==
  \E c \in TaskCallers, other \in TaskIds :
    /\ Finished(c, "get")
    /\ tcall[c].ret = Err("NotFound")
    /\ tcall[c].taskId \in created
    /\ deleted
    /\ other # tcall[c].taskId
    /\ taskExists(tasks, other)
    /\ includes(tasks[other].blocks, tcall[c].taskId)

\* C28: a waitFor(id, target) that has finished has one of three outcomes:
\* it returned the task as a fetch read it with status equal to target, it
\* failed with Timeout, or it failed with NotFound at a fetch that found no
\* task file.
C28_WaitForOutcomes ==
  \A c \in TaskCallers :
    Finished(c, "waitFor")
      => \/ /\ tcall[c].ret.status = "ok"
            /\ tcall[c].ret.value.id = tcall[c].taskId
            /\ tcall[c].ret.value.status = tcall[c].targetStatus
         \/ tcall[c].ret = Err("Timeout")
         \/ /\ tcall[c].ret = Err("NotFound")
            /\ ~taskExists(tasks, tcall[c].taskId)

\* A call of the coordinator has finished without an error.
Succeeded(o) == coord.op = o /\ coord.pc = "return" /\ coord.ret.status = "ok"

\* The mailbox m holds what it held when the coordinator's call began, and
\* one more entry after that.
OneAppended(m) ==
  /\ file[m].state = "json"
  /\ Len(file[m].msgs) = Len(coord.inboxes[m].msgs) + 1
  /\ SubSeq(file[m].msgs, 1, Len(coord.inboxes[m].msgs)) = coord.inboxes[m].msgs

Appended(m) == file[m].msgs[Len(file[m].msgs)]

\* C29: when createTask with an owner, or assignTask(id, agent), has
\* succeeded, the owner's mailbox holds exactly one entry more than before,
\* a task_assignment with the task's id, the persisted task's subject and
\* assignedBy the coordinator, no other mailbox has changed, and the
\* persisted task has that owner; when createTask without an owner has
\* succeeded, the task is persisted and no mailbox has changed.
C29_AssignmentNotified ==
  (Succeeded("createTask") \/ Succeeded("assignTask"))
    => /\ taskExists(tasks, coord.taskId)
       /\ tasks[coord.taskId].owner = coord.agent
       /\ IF coord.agent = Undefined
            THEN file = coord.inboxes
            ELSE /\ OneAppended(coord.agent)
                 /\ parseMessage(Appended(coord.agent)) =
                      [type |-> "task_assignment", taskId |-> coord.taskId,
                       subject |-> tasks[coord.taskId].subject,
                       assignedBy |-> CoordinatorName]
                 /\ \A m \in Mailboxes \ {coord.agent} : file[m] = coord.inboxes[m]

\* assignTask has notified worker2 of a task that createTask had assigned to
\* worker2 before: the mailbox holds both assignments.
C29_Witness ==
  /\ Succeeded("assignTask")
  /\ coord.agent = "worker2"
  /\ Len(file["worker2"].msgs) = 2
  /\ parseMessage(file["worker2"].msgs[1]).type = "task_assignment"
  /\ tasks[coord.taskId].subject = "Assigned task"

\* name is the name of a member of the config.
isMember(config, name) == \E i \in 1..Len(config) : config[i].name = name

\* C30: when broadcast(text, summary) has succeeded, the mailbox of every
\* member of the team other than the coordinator holds exactly one entry
\* more than before, with that text and summary and from the coordinator,
\* and every other mailbox, the coordinator's included, is as it was.
C30_BroadcastReaches ==
  Succeeded("broadcast")
    => \A m \in Mailboxes :
         IF m # CoordinatorName /\ isMember(coord.membersBefore, m)
           THEN /\ OneAppended(m)
                /\ Appended(m).text = coord.text
                /\ Appended(m).summary = coord.summary
                /\ Appended(m).from = CoordinatorName
           ELSE file[m] = coord.inboxes[m]

\* A broadcast with a summary has reached both workers.
C30_Witness ==
  /\ Succeeded("broadcast")
  /\ coord.summary = "announcement"
  /\ isMember(coord.membersBefore, "worker1")
  /\ isMember(coord.membersBefore, "worker2")
  /\ Len(file["worker1"].msgs) = 1
  /\ Len(file["worker2"].msgs) = 1

\* A call of parseMessage has its outcome.
Parsed(p) == op[p] = "parseMessage" /\ pc[p] = "return"

\* The payloads that are not JSON, that are JSON but no object, that are an
\* array, and that are an object with no type key.
Unparseable == {EmptyText, InvalidText, ContentText}
NonObjects == {NumberText, ZeroText, StringText, TrueText, FalseText, NullText}
Arrays == {ArrayText, EmptyArrayText}
Untyped == {UntypedText, EmptyObjectText}

\* C31: parseMessage applied to a payload that is not JSON (the empty string
\* included), that is a JSON number, string, boolean or null, that is a JSON
\* array, or that is a JSON object with no type key returns, without
\* throwing, type plain_text with the payload unchanged as its text.
C31_PlainTextFallback ==
  \A p \in Procs :
    (Parsed(p)
       /\ arg[p].message.text \in Unparseable \cup NonObjects \cup Arrays \cup Untyped)
      => ret[p] = Ok([type |-> "plain_text", text |-> arg[p].message.text])

\* parseMessage has been applied to the empty string.
C31_Witness ==
  \E p \in Procs :
    /\ Parsed(p)
    /\ arg[p].message.text = EmptyText
    /\ ret[p].value.text = ""

\* The payloads that are a JSON object with a type key, and the type each
\* carries.
Typed ==
  {IdleText, ShutdownText, PlanText, PermText, ResponseText, UnknownText,
   NullTypeText, AssignText("1", "Test task")}

TypeIn(text) ==
  CASE text = IdleText -> "idle_notification"
    [] text = ShutdownText -> "shutdown_approved"
    [] text = PlanText -> "plan_approval_request"
    [] text = PermText -> "permission_request"
    [] text = ResponseText -> "permission_response"
    [] text = UnknownText -> "unknown_type"
    [] text = NullTypeText -> Null
    [] OTHER -> "task_assignment"

\* The entry with the same payload and every other field fixed.
Canonical(msg) ==
  [from |-> Undefined, text |-> msg.text, timestamp |-> 0,
   summary |-> Undefined, color |-> Undefined, read |-> FALSE]

\* C32: parseMessage applied to a payload that is a JSON object with a type
\* key returns that object, its type and its other fields as in the
\* payload, whether or not the type is a known one; and the result for an
\* entry is the result for any entry with the same payload, whatever the
\* sender, the timestamp and the read flag.
C32_TypedPreserved ==
  \A p \in Procs :
    Parsed(p)
      => /\ ret[p] = Ok(parseMessage(Canonical(arg[p].message)))
         /\ arg[p].message.text \in Typed
              => /\ ret[p].value = JSONParse(arg[p].message.text).val
                 /\ ret[p].value.type = TypeIn(arg[p].message.text)
                 /\ "text" \notin DOMAIN ret[p].value

\* parseMessage has been applied to a read entry from the coordinator that
\* carries an object of an unknown type.
C32_Witness ==
  \E p \in Procs :
    /\ Parsed(p)
    /\ arg[p].message.text = UnknownText
    /\ arg[p].message.read
    /\ arg[p].message.from = "controller"
    /\ ret[p].value = [type |-> "unknown_type", data |-> "something"]

\* The members of the config other than those called name.
Others(config, name) == SelectSeq(config, LAMBDA m : m.name # name)

\* C33: the names of the members are pairwise distinct at all times; when
\* create has succeeded the lead "controller" is the only member; when
\* addMember has succeeded the record passed is the one member of that
\* name, the other members are as before, and the count has grown by one if
\* the name was new and not at all if it was present; when removeMember has
\* succeeded no member has that name and the others are as before.
C33_MemberNamesUnique ==
  /\ \A i, j \in 1..Len(members) :
       members[i].name = members[j].name => i = j
  /\ Succeeded("create") => members = <<Lead>>
  /\ Succeeded("addMember")
       => /\ \E i \in 1..Len(members) : members[i] = coord.member
          /\ Others(members, coord.agent) = Others(coord.membersBefore, coord.agent)
          /\ Len(members) =
               IF isMember(coord.membersBefore, coord.agent)
                 THEN Len(coord.membersBefore)
                 ELSE Len(coord.membersBefore) + 1
  /\ Succeeded("removeMember")
       => /\ ~isMember(members, coord.agent)
          /\ members = Others(coord.membersBefore, coord.agent)

\* addMember has replaced the record of a worker that was a member with
\* another agent type, in a team of three.
C33_Witness ==
  /\ Succeeded("addMember")
  /\ coord.agent = "worker1"
  /\ coord.member.agentType = "Bash"
  /\ Len(coord.membersBefore) = 3
  /\ \E i \in 1..3 : coord.membersBefore[i] = Member("worker1")

\* The calls that read a mailbox.
ReadOps == {"readInbox", "readUnread"}

\* C34: a readInbox or readUnread called on a mailbox whose file is absent
\* returns the empty sequence in that very step, with no error, leaving
\* every file (none is created) and every lock as they were; and a file
\* that was absent comes to exist only in a step of a writeInbox on that
\* mailbox.
C34_AbsentReadsEmpty ==
  [][/\ \A p \in Procs, m \in Mailboxes :
          (/\ pc[p] = "idle"
           /\ op'[p] \in ReadOps
           /\ arg'[p].mailbox = m
           /\ file[m].state = "absent")
            => /\ pc'[p] = "return"
               /\ ret'[p] = Ok(<<>>)
               /\ file' = file
               /\ lock' = lock
     /\ \A m \in Mailboxes :
          (file[m].state = "absent" /\ file'[m].state # "absent")
            => \E p \in Procs : op[p] = "write" /\ arg[p].mailbox = m]_vars

\* readInbox has returned the empty sequence for a mailbox that is absent
\* while a writeInbox is about to create it.
C34_Witness ==
  \E p, q \in Procs :
    /\ op[p] = "readInbox"
    /\ pc[p] = "return"
    /\ ret[p] = Ok(<<>>)
    /\ file[arg[p].mailbox].state = "absent"
    /\ op[q] = "write"
    /\ pc[q] = "createFile"
    /\ arg[q].mailbox = arg[p].mailbox

\* The calls of the mailbox store.
StoreOps == {"write", "readInbox", "readUnread"}

\* A step leaves every file in one of the given states as it is, and a call
\* of the mailbox store that returns in the step on such a file returns an
\* error and does not hold the file's lock.
FailsOn(states) ==
  \A m \in Mailboxes :
    file[m].state \in states
      => /\ file'[m] = file[m]
         /\ \A p \in Procs :
              (/\ pc[p] # "return"
               /\ pc'[p] = "return"
               /\ op'[p] \in StoreOps
               /\ arg'[p].mailbox = m)
                => /\ ret'[p].status = "error"
                   /\ lock'[lockTarget(m)] # p

\* A read of a file of zero bytes that returns a value returns the empty
\* sequence.
BlankReadsEmpty ==
  \A p \in Procs :
    (/\ pc[p] # "return"
     /\ pc'[p] = "return"
     /\ op'[p] \in ReadOps
     /\ file[arg'[p].mailbox].state = "blank"
     /\ ret'[p].status = "ok")
      => ret'[p] = Ok(<<>>)

\* C35 as stated: on a mailbox file that exists and is not JSON (malformed
\* text, or no text at all) writeInbox, readInbox and readUnread each fail
\* with an error, the file is left as it was and the lock is released.
C35_MalformedIsError == [][FailsOn({"malformed", "blank"})]_vars

\* C35, amended: on a mailbox file that holds malformed, non-empty text
\* writeInbox, readInbox and readUnread each fail with an error, the file is
\* left as it was and the lock is released; a file of zero bytes is read as
\* an empty mailbox.
C35_MalformedTextIsError ==
  [][FailsOn({"malformed"}) /\ BlankReadsEmpty]_vars

\* A writeInbox on the malformed mailbox has failed with the parse error,
\* the file is as it was and its lock is free.
C35_Witness ==
  \E p \in Procs :
    /\ op[p] = "write"
    /\ pc[p] = "return"
    /\ ret[p] = Err("SyntaxError")
    /\ file[arg[p].mailbox] = MalformedFile
    /\ lock[lockTarget(arg[p].mailbox)] = NoProc

\* The calls that write to a mailbox file.
WritingOps == {"write", "readUnread"}

\* C36: a step changes the file of a mailbox only if it is a step of a
\* writeInbox or readUnread called on that mailbox, so the entries and read
\* flags of every other mailbox stay as they are; and every entry held by a
\* mailbox was written to that mailbox, and to no other.
C36_OnlyOwnMailbox ==
  [][/\ \A m \in Mailboxes :
          file'[m] # file[m]
            => \E p \in Procs :
                 /\ op[p] \in WritingOps
                 /\ arg[p].mailbox = m
                 /\ pc'[p] # pc[p]
     /\ \A m \in Mailboxes :
          \A i \in 1..Len(file'[m].msgs) :
            /\ \E j \in 1..Len(applied'[m]) :
                 applied'[m][j].timestamp = file'[m].msgs[i].timestamp
            /\ \A n \in Mailboxes \ {m} :
                 \A j \in 1..Len(applied'[n]) :
                   applied'[n][j].timestamp # file'[m].msgs[i].timestamp]_vars

\* Each of two mailboxes holds the one entry written to it; the
\* coordinator's has been read and marked, the worker's is still unread.
C36_Witness ==
  /\ Len(file["controller"].msgs) = 1
  /\ Len(file["worker1"].msgs) = 1
  /\ file["controller"].msgs[1].read
  /\ ~file["worker1"].msgs[1].read
  /\ file["controller"].msgs[1].timestamp # file["worker1"].msgs[1].timestamp

\* C37: when a readUnread that holds the lock has read a mailbox file with
\* no unread entry, and the read did not fail, its next step is the release
\* of the lock with the empty sequence as its result and no file changed;
\* and the release frees the lock and returns that result, so the file is
\* never rewritten.
C37_NothingUnreadNoWrite ==
  [][\A p \in Procs :
       LET m == arg[p].mailbox
       IN  /\ (/\ op[p] = "readUnread"
               /\ pc[p] = "readFile"
               /\ pc'[p] # "readFile"
               /\ readable(file[m])
               /\ SelectUnread(file[m].msgs) = <<>>
               /\ ret'[p].status # "error")
                => /\ ret'[p] = Ok(<<>>)
                   /\ pc'[p] = "release"
                   /\ file' = file
           /\ (/\ op[p] = "readUnread"
               /\ pc[p] = "release"
               /\ pc'[p] # "release"
               /\ ret[p] = Ok(<<>>))
                => /\ pc'[p] = "return"
                   /\ ret'[p] = Ok(<<>>)
                   /\ file' = file
                   /\ lock'[lockTarget(m)] = NoProc]_vars

\* A readUnread has returned the empty sequence from a mailbox whose one
\* entry was already read; the lock is free.
C37_Witness ==
  \E p \in Procs :
    /\ op[p] = "readUnread"
    /\ pc[p] = "return"
    /\ ret[p] = Ok(<<>>)
    /\ Len(file[arg[p].mailbox].msgs) = 1
    /\ file[arg[p].mailbox].msgs[1].read
    /\ lock[lockTarget(arg[p].mailbox)] = NoProc

\* The entry stamped t is nowhere unread in the coordinator's inbox.
MarkedRead(t) ==
  \A j \in 1..Len(file[ControllerInbox].msgs) :
    file[ControllerInbox].msgs[j].timestamp = t
      => file[ControllerInbox].msgs[j].read

\* The entry stamped t is in no result that a receive, receiveAny or poll
\* is about to return.
InNoResult(t) ==
  \A q \in Procs :
    (pc[q] = "return" /\ ret[q].status = "ok")
      => \A k \in 1..Len(ret[q].value) :
           IF op[q] = "poll"
             THEN ret[q].value[k].raw.timestamp # t
             ELSE op[q] \in {"receive", "receiveAny"}
                    => ret[q].value[k].timestamp # t

\* C38: an entry that a scan of readUnread has returned is read in the
\* inbox from then on and is returned by no second scan; and an entry from
\* another sender that a scan of receive(agent) has returned was returned
\* by that scan alone, was handed to no handler of the poller, and is in
\* no result of a receive, receiveAny or poll.
C38_OtherSendersConsumed ==
  /\ \A t \in Stamps :
       returned[t] >= 1 => returned[t] = 1 /\ MarkedRead(t)
  /\ \A p \in Procs :
       op[p] = "receive"
         => \A i \in 1..Len(seen[p]) :
              seen[p][i].from # arg[p].agent
                => /\ returned[seen[p][i].timestamp] = 1
                   /\ handled[seen[p][i].timestamp] = 0
                   /\ InNoResult(seen[p][i].timestamp)

\* A receive("worker1") has scanned an entry from worker2, found nothing to
\* return and sleeps, and a poll comes back with an empty batch.
C38_Witness ==
  \E p, q \in Procs :
    /\ op[p] = "receive"
    /\ pc[p] = "sleep"
    /\ Len(seen[p]) = 1
    /\ seen[p][1].from = "worker2"
    /\ file[ControllerInbox].msgs[1].read
    /\ op[q] = "poll"
    /\ pc[q] = "return"
    /\ ret[q] = Ok(<<>>)

\* C39: a poll() whose readUnread has its outcome returns without
\* throwing; if readUnread failed it returns the empty batch and invokes no
\* handler; and every entry readUnread gave it is already read in the inbox
\* when the handlers are invoked and was handed to the handlers by no
\* earlier poll, whether or not the handlers of that poll threw.
C39_PollNeverThrows ==
  [][\A p \in Procs :
       PollGoesOn(p)
         => /\ pc'[p] = "return"
            /\ ret'[p].status = "ok"
            /\ file' = file
            /\ ret[p].status = "error"
                 => /\ ret'[p] = Ok(<<>>)
                    /\ invoked'[p] = <<>>
                    /\ handled' = handled
            /\ ret[p].status = "ok"
                 => \A i \in 1..Len(ret[p].value) :
                      /\ MarkedRead(ret[p].value[i].timestamp)
                      /\ handled[ret[p].value[i].timestamp] = 0]_vars

\* Every handler threw on the batch of the first entry; the entry is read
\* and a later poll has come back empty, with no handler invoked.
C39_Witness ==
  \E p \in Procs :
    /\ op[p] = "poll"
    /\ pc[p] = "return"
    /\ handlers = <<"exploding", "exploding">>
    /\ handled[1] = 1
    /\ ret[p] = Ok(<<>>)
    /\ invoked[p] = <<>>
    /\ file[ControllerInbox].msgs[1].read

\* C40: an events() generator has yielded, in order, the messages its
\* receive calls have returned, all of them once an iteration is over, all
\* but the ones still to come while it is inside an iteration; a receive
\* that failed does not end it; it is done only because the agent was
\* observed not running, because its deadline, set only for a timeout above
\* 0, has passed, or because its consumer left; and once the agent has been
\* observed not running it is done.
C40_EventsYieldsAll ==
  /\ gen.pc \in {"while", "receive", "isRunning"}
       => gen.yielded = gen.received
  /\ gen.pc \in {"yield", "suspended"}
       => gen.yielded \o gen.messages = gen.received
  /\ gen.pc = "done"
       => /\ gen.ended \in {"notRunning", "deadline", "return"}
          /\ gen.ended # "return" => gen.yielded = gen.received
          /\ gen.ended = "notRunning" => ~gen.isRunning
          /\ gen.ended = "deadline"
               => /\ gen.timeout > 0
                  /\ gen.now >= gen.timeout
  /\ gen.timeout = 0 => gen.ended \in {"no", "notRunning", "return"}
  /\ ~gen.isRunning => gen.pc = "done" /\ gen.ended = "notRunning"

\* A generator with no timeout has yielded two messages of its first
\* receive, gone on after its second receive failed, and ended when the
\* agent was found not running.
C40_Witness ==
  /\ gen.pc = "done"
  /\ gen.ended = "notRunning"
  /\ gen.timeout = 0
  /\ gen.receives = 2
  /\ gen.last = "error"
  /\ Len(gen.yielded) = 2
  /\ gen.yielded[1] # gen.yielded[2]

====
